---- MODULE Spec2Model ----
(***************************************************************************)
(* The tool-calling conversation loops of MCPClient (src/src/client_utils  *)
(* .py) and the /chat stream wrappers of src/src/web_client.py.            *)
(*                                                                         *)
(* A string is a sequence of tokens, so that joining, concatenating and    *)
(* formatting are computed as the code computes them.  One query runs at   *)
(* a time; every await and every yield of the code is a step.              *)
(***************************************************************************)
EXTENDS Integers, Sequences, FiniteSets, TLC

VARIABLES
    path,            \* which MCPClient method runs: "none" when idle
    pc,              \* position inside that method
    sessions,        \* _SESSIONS[session_id] of conversation.py
    messages,        \* the working list (messages / contents)
    request,         \* arguments of the last provider call issued
    calls,           \* provider calls issued by the current query
    script,          \* the provider turns received by the current query
    response,        \* response / final / the parts of the current turn
    i,               \* loop index (stream position, tool index)
    tool_results,    \* tool_results / response_parts being built
    final_text,      \* final_text of process_query_anthropic
    delivered,       \* the chunks the consumer has received
    full_response,   \* full_response of the /chat stream wrapper
    outcome,         \* how the last query ended, and its value
    events,          \* what the current query did, in order
    stub,            \* turns a provider stub is told to replay
    last,            \* the previous query, kept for a replay on another path
    conversation_history,  \* the list the caller passed to the query
    resources,       \* what the query holds open: the session, a stream
    \* one MCPClient shared by the requests of the web application
    environ,         \* os.environ: ANTHROPIC_API_KEY, PREFERRED_MODEL_ID
    client,          \* app.state.client: anthropic, _anthropic_key, model_used
    running,         \* the queries running on that client
    model_id,        \* the last _get_model_id call: its inputs and result
    \* the tool server handling one request
    headers,         \* request.headers
    arguments,       \* the arguments of the tool call
    reply,           \* what the handler returned or raised
    influx,          \* the InfluxDBClient objects created, with their queries
    connections,     \* the calls of new_le_connection
    \* env_config._get_env_vars
    files,           \* the .env files on disk
    lookups,         \* what the find_dotenv calls returned, in order
    returned,        \* what _get_env_vars returned
    \* conversation.py with several sessions
    _SESSIONS,       \* the stored history of every session that has one
    appended,        \* per session, the pairs appended since its last clear
    updates,         \* the update_conversation_history calls made
    \* the /chat and /clear-history requests of the web application
    chats,           \* the /chat requests being answered
    submitted,       \* the queries submitted so far
    cleared,         \* per session, the queries submitted before its last clear
    \* the provider preference of the web application
    env_file,        \* the .env file: its PREFERRED_MODEL line
    os_environ,      \* os.environ: PREFERRED_MODEL and the two API keys read
    switched,        \* the preference the last switch-model request stored
    dispatched,      \* the /chat requests answered since, each by its path
    \* tools/devicehub_tools.py: the device list cache of the tool server
    _device_list_cache,  \* per EDGE_URL, the cached list and its time
    monotonic,       \* time.monotonic(), in seconds
    lookup,          \* the _find_device_by_name call of the request served
    \* the Edge instances of the web application
    edge_file,       \* the .env file: the EDGE_ and EDGE_INSTANCE_ lines
    edge_environ,    \* os.environ: the same variables in the process
    edge_request,    \* the instance request that returned last
    \* tools/data_tools.py: the NATS readers
    nats_call,       \* the reader running: its locals and its position
    nats_open,       \* the NATS connections of the process that are open
    nats_calls       \* the readers called so far

\* the state of one query and of its session
query_vars ==
    <<path, pc, sessions, messages, request, calls, script, response, i,
      tool_results, final_text, delivered, full_response, outcome,
      events, stub, last, conversation_history, resources>>

client_vars == <<environ, client, running, model_id>>
server_vars == <<headers, arguments, reply, influx, connections>>
dotenv_vars == <<files, lookups, returned>>

\* the state of the other components, which no step of that query touches
session_vars == <<_SESSIONS, appended, updates>>
chat_vars == <<chats, submitted, cleared>>
model_vars == <<env_file, os_environ, switched, dispatched>>
device_vars == <<_device_list_cache, monotonic, lookup>>
edge_vars == <<edge_file, edge_environ, edge_request>>
nats_vars == <<nats_call, nats_open, nats_calls>>
late_vars == <<model_vars, device_vars, edge_vars, nats_vars>>
more_vars == <<session_vars, chat_vars, late_vars>>
outside == <<client_vars, server_vars, dotenv_vars, more_vars>>

vars == <<query_vars, outside>>

-----------------------------------------------------------------------------
(* Bounds *)

\* provider calls followed within one query (the loops have no limit)
MaxTurns == 3

\* the text parts of provider turns
TEXT_A == <<"a">>
TEXT_B == <<"b">>

\* the user's query
Query == <<"q">>

\* what a tool returns: a value, or the text of a failure the tool server reports
TOOL_TEXT == <<"72">>
TOOL_ERROR == <<"Unknown tool">>
ToolTexts == {TOOL_TEXT, TOOL_ERROR}

No == <<>>

\* Python's None
None == "None"

-----------------------------------------------------------------------------
(* Strings *)

RECURSIVE Concat(_)
\* "".join(parts) / repeated +=
Concat(parts) ==
    IF parts = <<>> THEN <<>> ELSE Head(parts) \o Concat(Tail(parts))

RECURSIVE Join(_, _)
\* sep.join(parts)
Join(sep, parts) ==
    IF parts = <<>> THEN <<>>
    ELSE IF Len(parts) = 1 THEN Head(parts)
    ELSE Head(parts) \o sep \o Join(sep, Tail(parts))

NL == <<"\n">>

\* the marker without its delimiting newlines
ToolMarkerPlain(name) == <<"[Tool: ", name, "]">>

\* f"\n[Tool: {name}]\n"
ToolMarker(name) == <<"\n", "[Tool: ", name, "]", "\n">>

\* f"\n[Error: {e}]"
ErrorMsg(e) == <<"\n", "[Error: ", e, "]">>

\* f"Error: {e}" of openai_stream
OpenAIErrorMsg(e) == <<"Error: ", e>>

-----------------------------------------------------------------------------
(* Content blocks and messages *)

Block(type, text, id, name) ==
    [type |-> type, text |-> text, id |-> id, name |-> name]

TextBlock(t) == Block("text", t, No, "")
ToolUse(id, name) == Block("tool_use", <<>>, id, name)
\* {"type": "tool_result", "tool_use_id": block.id, "content": result_text}
ToolResult(id, text) == Block("tool_result", text, id, "")
\* types.Part.from_function_response(name=fc.name, response={"result": ...})
FunctionResponse(name, text) == Block("function_response", text, No, name)

IsText(b) == b.type = "text"
IsToolUse(b) == b.type = "tool_use"

\* {"role": role, "content": <str>}
StrMsg(role, s) == [role |-> role, text |-> s, blocks |-> <<>>]
\* {"role": role, "content": [blocks]}
ListMsg(role, bl) == [role |-> role, text |-> <<>>, blocks |-> bl]


\* only the first text block of a turn is kept
TextPartsFirstOnly(content) ==
    LET texts == SelectSeq(content, IsText)
    IN  [k \in 1..(IF texts = <<>> THEN 0 ELSE 1) |-> texts[k].text]

\* rc.text for the text blocks of a content list, in order
TextParts(content) ==
    LET texts == SelectSeq(content, IsText)
    IN  [k \in 1..Len(texts) |-> texts[k].text]

\* the first index k >= from of content with text to yield, 0 if none
NextText(content, from) ==
    LET ks == {k \in from..Len(content) :
                  content[k].type = "text" /\ content[k].text # <<>>}
    IN  IF ks = {} THEN 0 ELSE CHOOSE k \in ks : \A m \in ks : k <= m

\* the first index k >= from of content with a block of this type, 0 if none
NextOfType(content, from, type) ==
    LET ks == {k \in from..Len(content) : content[k].type = type}
    IN  IF ks = {} THEN 0 ELSE CHOOSE k \in ks : \A m \in ks : k <= m

-----------------------------------------------------------------------------
(* The provider: what one turn may contain *)

StopReasons == {"end_turn", "tool_use", "max_tokens"}

\* the shapes of a turn's content: text blocks and tool calls by name, one
\* of them a name the tool server does not know
Shapes ==
    { <<>>,
      <<TextBlock(TEXT_A)>>,
      <<TextBlock(TEXT_A), TextBlock(TEXT_B)>>,
      <<ToolUse(No, "get_temp")>>,
      <<TextBlock(TEXT_B), ToolUse(No, "get_temp"), ToolUse(No, "no_such_tool")>> }

\* a Gemini chunk may also carry a part whose text is empty
GeminiShapes ==
    Shapes \cup { <<TextBlock(<<>>), ToolUse(No, "get_temp")>> }

\* the provider numbers the tool calls it emits: call ids are unique
WithIds(shape, n) ==
    [k \in 1..Len(shape) |->
        IF IsToolUse(shape[k]) THEN ToolUse(<<n, k>>, shape[k].name)
        ELSE shape[k]]

\* the stop reasons a provider reports; the Gemini loop reads none
Reasons(p) == IF p = "gemini" THEN {"STOP"} ELSE StopReasons

\* the turns the provider may answer the n-th call of a query with; a stub
\* answers with the turns it was given and with nothing after them
ProviderTurns(n) ==
    IF stub # <<>>
    THEN {stub[k] : k \in {n} \cap (1..Len(stub))}
    ELSE {[content |-> WithIds(shape, n), stop_reason |-> r] :
            shape \in (IF path = "gemini" THEN GeminiShapes ELSE Shapes),
            r \in Reasons(path)}

NoTurn == [content |-> <<>>, stop_reason |-> "none"]

-----------------------------------------------------------------------------
(* The tool server, as session.call_tool sees it *)

\* the names handle_list_tools lists and handle_call_tool dispatches
TOOLS == {"get_temp", "list_devices"}

\* raise ValueError(f"Unknown tool: {name}"), re-raised as McpError(str(e))
UnknownTool(name) == <<"Unknown tool: ", name>>

\* the unknown name is dispatched to the first tool
handle_call_tool_any(name) == ToolTexts

\* what the call_tool handler answers for a name: the text a tool returns or
\* the message of the McpError it raises, which the server sends back as the
\* text of an error result
handle_call_tool(name) ==
    IF name \in TOOLS THEN ToolTexts ELSE {UnknownTool(name)}

-----------------------------------------------------------------------------
(* conversation.py *)

MAX_HISTORY_PAIRS == 5

\* the session id cookies of two browsers
SessionIds == {"s1", "s2"}

\* get_conversation_history: a copy of the stored list
get_conversation_history == sessions

\* the list is cut at its head: history[: MAX_HISTORY_PAIRS * 2]
update_conversation_history_oldest(history, query, resp) ==
    LET h == history \o <<StrMsg("user", query), StrMsg("assistant", resp)>>
    IN  IF Len(h) > 10 THEN SubSeq(h, 1, 10) ELSE h

\* update_conversation_history(session_id, query, response), clear = False
update_conversation_history(history, query, resp) ==
    LET h == history \o <<StrMsg("user", query), StrMsg("assistant", resp)>>
    IN  IF Len(h) > MAX_HISTORY_PAIRS * 2
        THEN SubSeq(h, Len(h) - MAX_HISTORY_PAIRS * 2 + 1, Len(h))
        ELSE h

\* the session histories a request is followed from
Histories ==
    { <<>>, <<StrMsg("user", Query), StrMsg("assistant", TEXT_A)>> }

\* the session histories left by a failed query that a request is followed from
ErrorHistories ==
    { <<StrMsg("user", Query), StrMsg("assistant", ErrorMsg("Unavailable"))>>,
      <<StrMsg("user", Query), StrMsg("assistant", OpenAIErrorMsg("AgentError"))>> }

-----------------------------------------------------------------------------
(* Initial state *)

NoOutcome ==
    [path |-> "none", kind |-> "none", value |-> <<>>, deltas |-> <<>>,
     script |-> <<>>]

NoRequest == [messages |-> <<>>, system |-> FALSE, tools |-> {}]

QueriesIdle ==
    /\ path = "none"
    /\ pc = "idle"
    /\ sessions = <<>>
    /\ messages = <<>>
    /\ request = NoRequest
    /\ calls = 0
    /\ script = <<>>
    /\ response = NoTurn
    /\ i = 0
    /\ tool_results = <<>>
    /\ final_text = <<>>
    /\ delivered = <<>>
    /\ full_response = <<>>
    /\ outcome = NoOutcome
    /\ events = <<>>
    /\ stub = <<>>
    /\ last = NoOutcome
    /\ conversation_history = <<>>
    /\ resources = {}

\* the requests that may run a query on the one shared MCPClient
Queries == {1, 2}

\* a request that has not called the client yet
NotStarted ==
    [provider |-> "none", pc |-> "idle", alone |-> None, used |-> None,
     preferred |-> None, model |-> None, label |-> None]

\* app.state.client = MCPClient(), no request being served
ClientIdle ==
    /\ environ = [ANTHROPIC_API_KEY |-> "k1", PREFERRED_MODEL_ID |-> None]
    /\ client = [anthropic |-> None, _anthropic_key |-> "", model_used |-> None]
    /\ running = [q \in Queries |-> NotStarted]
    /\ model_id = [provider |-> None, preferred |-> None, model |-> None]

\* the request headers the tool server reads
HeaderNames ==
    {"EDGE_URL", "EDGE_API_CLIENT_ID", "EDGE_API_CLIENT_SECRET",
     "VALIDATE_CERTIFICATE",
     "INFLUX_HOST", "INFLUX_PORT", "INFLUX_USERNAME", "INFLUX_PASSWORD"}

\* request.headers.get(name) is None for every name
NoHeaders == [name \in HeaderNames |-> None]

\* a key that the arguments dict does not hold
Absent == [kind |-> "absent", value |-> <<>>]

\* the handler has neither returned nor raised
NoReply == [kind |-> "none", message |-> <<>>]

\* the tool server before a request
ServerIdle ==
    /\ headers = NoHeaders
    /\ arguments = [measurement |-> Absent, time_range |-> Absent]
    /\ reply = NoReply
    /\ influx = <<>>
    /\ connections = <<>>

\* where a .env file may be: the working directory and the directory of the
\* application
CwdEnv == "./.env"
AppEnv == "/app/.env"
Paths == {CwdEnv, AppEnv}

\* a path without a file
NoFile == [exists |-> FALSE, lines |-> <<>>]

\* _get_env_vars has not returned
NotReturned == [kind |-> "none", env_vars |-> <<>>, path |-> None]

\* _get_env_vars not called
DotenvIdle ==
    /\ files = [p \in Paths |-> NoFile]
    /\ lookups = <<>>
    /\ returned = NotReturned

\* the /chat requests that may be answered at the same time
Requests == {1, 2}

\* a request slot without a request
NoChat ==
    [pc |-> "idle", session_id |-> "", query |-> 0, full_response |-> <<>>,
     conversation_history |-> <<>>]

\* the session store before any update
SessionsIdle ==
    /\ _SESSIONS = <<>>
    /\ appended = [id \in SessionIds |-> <<>>]
    /\ updates = 0

\* no /chat request is being answered
ChatsIdle ==
    /\ chats = [r \in Requests |-> NoChat]
    /\ submitted = 0
    /\ cleared = [id \in SessionIds |-> 0]

\* the EDGE_URL headers and the client credentials of the tool requests
EdgeUrls == {"https://edge1", "https://edge2"}

Credentials == {"client1", "client2"}

\* a device list as devices.list_devices returned it: for which Edge, to
\* which client, and when
DeviceList(url, by, at) == [url |-> url, by |-> by, at |-> at]

NoList == [url |-> "", by |-> "", at |-> 0]

NoLookup == [url |-> "", by |-> "", device_list |-> NoList]

\* the bound on the instance indices followed; the code scans range(1, 50)
MaxIndex == 2

Indices == 1..MaxIndex

Suffixes == {"URL", "CLIENT_ID", "SECRET", "NAME"}

\* the four EDGE_INSTANCE_{i}_* variables of an index without an instance
NoInstance == [suffix \in Suffixes |-> None]

\* an environment without any of the Edge variables
NoEdges ==
    [EDGE_URL |-> None, EDGE_API_CLIENT_ID |-> None,
     EDGE_API_CLIENT_SECRET |-> None, ACTIVE_EDGE_INSTANCE |-> None,
     EDGE_INSTANCE |-> [idx \in Indices |-> NoInstance]]

NoEdgeRequest == [route |-> "none", index |-> 0]

\* no NATS reader has been called
NoNatsCall ==
    [fn |-> "none", pc |-> "idle", num_samples |-> 0, counter |-> 0,
     stop_event |-> FALSE, nc |-> "none", raising |-> "none"]

\* no provider has been chosen and no API key is set
ModelIdle ==
    /\ env_file = [PREFERRED_MODEL |-> None]
    /\ os_environ = [PREFERRED_MODEL |-> None, ANTHROPIC_API_KEY |-> None,
                     OPENAI_API_KEY |-> None]
    /\ switched = None
    /\ dispatched = <<>>

\* the cache is empty and no device tool is being served
DevicesIdle ==
    /\ _device_list_cache = [url \in EdgeUrls |-> NoList]
    /\ monotonic = 0
    /\ lookup = NoLookup

\* no Edge instance is configured
EdgesIdle ==
    /\ edge_file = NoEdges
    /\ edge_environ = NoEdges
    /\ edge_request = NoEdgeRequest

\* no NATS reader runs and no connection is open
NatsIdle ==
    /\ nats_call = NoNatsCall
    /\ nats_open = 0
    /\ nats_calls = 0

LateIdle == ModelIdle /\ DevicesIdle /\ EdgesIdle /\ NatsIdle

MoreIdle == SessionsIdle /\ ChatsIdle /\ LateIdle

Init == QueriesIdle /\ ClientIdle /\ ServerIdle /\ DotenvIdle /\ MoreIdle


-----------------------------------------------------------------------------
(* How a query ends *)

\* the text deltas the current query has yielded, in order
Deltas == [k \in 1..Len(SelectSeq(events, LAMBDA e : e[1] = "text")) |->
              SelectSeq(events, LAMBDA e : e[1] = "text")[k][2]]

\* the method is left with what it opened still open
EndsHolding(kind, value, turns) ==
    /\ outcome' = [path |-> path, kind |-> kind, value |-> value,
                   deltas |-> Deltas, script |-> turns]
    /\ path' = "none"
    /\ pc' = "idle"
    /\ resources' = resources

\* the method returns or raises to its caller: nothing is left running, and
\* leaving the async with blocks closes the stream and the session
Ends(kind, value, turns) ==
    /\ outcome' = [path |-> path, kind |-> kind, value |-> value,
                   deltas |-> Deltas, script |-> turns]
    /\ path' = "none"
    /\ pc' = "idle"
    /\ resources' = {}

\* the exception is swallowed: no error chunk is sent
StreamRaisesSilently(e) ==
    /\ sessions' = update_conversation_history(sessions, Query, full_response)
    /\ outcome' = [path |-> path, kind |-> "error", value |-> full_response,
                   deltas |-> <<>>, script |-> script]
    /\ path' = "none"
    /\ pc' = "idle"
    /\ resources' = {}
    /\ UNCHANGED <<full_response, delivered>>

\* except Exception as e: of anthropic_stream / gemini_stream, then finally:
StreamRaises(e) ==
    /\ full_response' = full_response \o ErrorMsg(e)
    /\ delivered' = Append(delivered, ErrorMsg(e))
    /\ sessions' = update_conversation_history(sessions, Query, full_response')
    /\ Ends("error", full_response', script)

\* the pair is stored when the stream starts and again when it ends
StreamReturnsTwice ==
    /\ sessions' = update_conversation_history(
                       update_conversation_history(sessions, Query, <<>>),
                       Query, full_response)
    /\ outcome' = [path |-> path, kind |-> "done", value |-> full_response,
                   deltas |-> Deltas, script |-> script]
    /\ path' = "none"
    /\ pc' = "idle"
    /\ resources' = {}
    /\ UNCHANGED <<full_response, delivered>>

\* the generator is exhausted: finally: of anthropic_stream / gemini_stream
StreamReturns ==
    /\ sessions' = update_conversation_history(sessions, Query, full_response)
    /\ Ends("done", full_response, script)
    /\ UNCHANGED <<full_response, delivered>>

\* an exception leaves process_query_anthropic
QueryRaises(e) ==
    /\ Ends("raised", <<e>>, script)
    /\ UNCHANGED <<full_response, delivered, sessions>>

\* full_response += chunk; yield chunk
Yield(chunk) ==
    /\ full_response' = full_response \o chunk
    /\ delivered' = Append(delivered, chunk)

Streaming == path \in {"stream", "gemini"}

Raises(e) == IF Streaming THEN StreamRaises(e) ELSE QueryRaises(e)

-----------------------------------------------------------------------------
(* Entry: the working list, the session, the tool list *)

\* messages = conversation_history: the working list is the caller's list
AfterAppendShared(history, msgs) == msgs

\* messages = list(conversation_history): the working list is a new list,
\* so no append to it shows in the list the caller holds
AfterAppend(history, msgs) == history

Fresh(p, msgs) ==
    /\ path' = p
    /\ pc' = IF p = "openai" THEN "agent" ELSE "list_tools"
    /\ conversation_history' = AfterAppend(get_conversation_history, msgs)
    /\ resources' = {}
    /\ messages' = msgs
    /\ request' = NoRequest
    /\ calls' = 0
    /\ script' = <<>>
    /\ response' = NoTurn
    /\ i' = 0
    /\ tool_results' = <<>>
    /\ final_text' = <<>>
    /\ delivered' = <<>>
    /\ full_response' = <<>>
    /\ events' = <<>>
    /\ outcome' = NoOutcome

\* messages = list(conversation_history); messages.append(user query)
WorkingList(history) ==
    history \o <<StrMsg("user", Query)>>

\* contents of process_streaming_query_gemini
GeminiContents(history) ==
    [k \in 1..Len(history) |->
        ListMsg(IF history[k].role = "assistant"
                THEN "model" ELSE "user",
                <<TextBlock(history[k].text)>>)]
    \o <<ListMsg("user", <<TextBlock(Query)>>)>>

\* a caller starts process_query_anthropic with the history of its session
process_query_anthropic ==
    /\ path = "none"
    /\ sessions \in Histories
    /\ Fresh("anthropic", WorkingList(get_conversation_history))
    /\ stub' = <<>>
    /\ last' = NoOutcome
    /\ UNCHANGED <<sessions, outside>>

\* a session whose last query failed is refused
chat_post_refusing(p, replay) ==
    /\ path = "none"
    /\ outcome.kind # "error"
    /\ sessions \in Histories \cup ErrorHistories
    /\ Fresh(p, IF p = "gemini"
                THEN GeminiContents(get_conversation_history)
                ELSE WorkingList(get_conversation_history))
    /\ IF replay
       THEN /\ p # "openai"
            /\ outcome.kind = "returned"
            /\ stub' = outcome.script
            /\ last' = outcome
       ELSE stub' = <<>> /\ last' = NoOutcome
    /\ UNCHANGED <<sessions, outside>>

\* POST /chat, dispatched to process_streaming_query(_gemini) or to
\* process_query_with_openai_agent; with replay the provider answers as it
\* answered the process_query_anthropic call before
chat_post(p, replay) ==
    /\ path = "none"
    /\ sessions \in Histories \cup ErrorHistories
    /\ Fresh(p, IF p = "gemini"
                THEN GeminiContents(get_conversation_history)
                ELSE WorkingList(get_conversation_history))
    /\ IF replay
       THEN /\ p # "openai"
            /\ outcome.kind = "returned"
            /\ stub' = outcome.script
            /\ last' = outcome
       ELSE stub' = <<>> /\ last' = NoOutcome
    /\ UNCHANGED <<sessions, outside>>

\* POST /chat answered before any stream is made: 401 when check_model_key
\* finds no key, 400 when the query is empty; the request has no generator,
\* no working list and no history copy
chat_post_rejected(status) ==
    /\ path = "none"
    /\ outcome.kind # "rejected"
    /\ outcome' = [NoOutcome EXCEPT !.kind = "rejected", !.value = <<status>>]
    /\ path' = "none"
    /\ pc' = "idle"
    /\ messages' = <<>>
    /\ request' = NoRequest
    /\ calls' = 0
    /\ script' = <<>>
    /\ response' = NoTurn
    /\ i' = 0
    /\ tool_results' = <<>>
    /\ final_text' = <<>>
    /\ delivered' = <<>>
    /\ full_response' = <<>>
    /\ events' = <<>>
    /\ stub' = <<>>
    /\ last' = NoOutcome
    /\ conversation_history' = <<>>
    /\ resources' = {}
    /\ UNCHANGED <<sessions, outside>>

\* POST /clear-history
clear_history ==
    /\ path = "none"
    /\ sessions # <<>>
    /\ sessions' = <<>>
    /\ UNCHANGED <<path, pc, messages, request, calls, script, response, i,
                   tool_results, final_text, delivered, full_response,
                   outcome, events, stub, last, conversation_history,
                   resources, outside>>

\* async with self._open_session(); tools_resp = await session.list_tools()
list_tools ==
    /\ pc = "list_tools"
    /\ pc' = "create"
    /\ resources' = {"session"}
    /\ request' = [request EXCEPT !.tools = TOOLS]
    /\ UNCHANGED <<path, sessions, messages, calls, script, response,
                   i, tool_results, final_text, delivered, full_response,
                   outcome, events, stub, last, conversation_history, outside>>

\* the tool service cannot be reached
list_tools_fails ==
    /\ pc = "list_tools"
    /\ Raises("Unavailable")
    /\ UNCHANGED <<messages, request, calls, script, response, i,
                   tool_results, final_text, events, stub, last,
                   conversation_history, outside>>


-----------------------------------------------------------------------------
(* The parts of the loops *)

\* tool_uses of process_query_anthropic, function_calls of the Gemini loop
ToolUses(content) == SelectSeq(content, IsToolUse)

\* the comparison of the stop reason inverted
AnthropicBreaksInverted(resp) ==
    resp.stop_reason = "tool_use" \/ SelectSeq(resp.content, IsToolUse) = <<>>

\* if response.stop_reason != "tool_use" or not tool_uses: break
AnthropicBreaks(resp) ==
    resp.stop_reason # "tool_use" \/ ToolUses(resp.content) = <<>>

\* if final.stop_reason != "tool_use": break
StreamBreaks(resp) == resp.stop_reason # "tool_use"

\* if not function_calls: break
GeminiBreaks(resp) == ToolUses(resp.content) = <<>>

\* a loop that gives up after its second provider call
BreaksCapped(resp) ==
    \/ calls >= 2
    \/ IF path = "stream" THEN resp.stop_reason # "tool_use"
       ELSE SelectSeq(resp.content, IsToolUse) = <<>>

Breaks(resp) ==
    IF path = "anthropic" THEN AnthropicBreaks(resp)
    ELSE IF path = "stream" THEN StreamBreaks(resp)
    ELSE GeminiBreaks(resp)

\* "".join(final_text)
FinalTextConcat(parts) == Concat(parts)

\* return "\n".join(final_text)
FinalText(parts) == Join(NL, parts)

\* every result refers to the first tool call of the turn
ResultForFirst(block, result_text) ==
    LET first == response.content[NextOfType(response.content, 1, "tool_use")]
    IN  IF path = "gemini" THEN FunctionResponse(first.name, result_text)
        ELSE ToolResult(first.id, result_text)

\* the entry appended to tool_results / response_parts for one call
ResultFor(block, result_text) ==
    IF path = "gemini" THEN FunctionResponse(block.name, result_text)
    ELSE ToolResult(block.id, result_text)

\* every part of the turn is echoed on the Gemini path too
EchoRaw(resp) ==
    ListMsg(IF path = "gemini" THEN "model" ELSE "assistant", resp.content)

\* if part.text: ... elif part.function_call: assistant_parts.append(part)
IsKept(part) == IsToolUse(part) \/ (IsText(part) /\ part.text # <<>>)

\* messages.append({"role": "assistant", "content": response.content}) /
\* contents.append(types.Content(role="model", parts=assistant_parts))
Echo(resp) ==
    IF path = "gemini"
    THEN ListMsg("model", SelectSeq(resp.content, IsKept))
    ELSE ListMsg("assistant", resp.content)

\* messages.append({"role": "user", "content": tool_results})
Results(results) == ListMsg("user", results)

\* the arguments of a provider call; the follow-up call of
\* process_query_anthropic passes no system prompt
Request(msgs, first) ==
    [messages |-> msgs, system |-> (path # "anthropic" \/ first),
     tools |-> request.tools]

\* the provider is called while a tool call is still awaited
AtProviderCallEarly == pc \in {"create", "call_tool"}

\* the next provider call is reached only after the for loop over the
\* turn's tool calls: every await before it has completed
AtProviderCall == pc = "create"

\* the provider is called with the working list
CallsProvider ==
    /\ AtProviderCall
    /\ calls < MaxTurns
    /\ request' = Request(messages, calls = 0)
    /\ calls' = calls + 1

-----------------------------------------------------------------------------
(* process_query_anthropic *)

\* response = await self.anthropic.messages.create(...), then the loop body
\* up to the first tool call or the return
create ==
    /\ path = "anthropic"
    /\ CallsProvider
    /\ \E turn \in ProviderTurns(calls + 1) :
        /\ script' = Append(script, turn)
        /\ response' = turn
        /\ events' = Append(events, <<"provider", calls + 1>>)
        /\ final_text' = final_text \o TextParts(turn.content)
        /\ IF AnthropicBreaks(turn)
           THEN /\ Ends("returned", FinalText(final_text'), script')
                /\ UNCHANGED <<messages, tool_results, i>>
           ELSE LET first == NextOfType(turn.content, 1, "tool_use")
                IN  /\ tool_results' = <<>>
                    /\ UNCHANGED resources
                    /\ IF first = 0
                       THEN /\ messages' =
                                messages \o <<Echo(turn), Results(<<>>)>>
                            /\ pc' = "create"
                            /\ UNCHANGED i
                       ELSE /\ messages' = Append(messages, Echo(turn))
                            /\ pc' = "invoke"
                            /\ i' = first
                    /\ UNCHANGED <<path, outcome>>
    /\ conversation_history' = AfterAppend(conversation_history, messages')
    /\ UNCHANGED <<sessions, delivered, full_response, stub, last, outside>>

\* messages.create raises
create_fails ==
    /\ path = "anthropic"
    /\ CallsProvider
    /\ events' = Append(events, <<"provider", calls + 1>>)
    /\ QueryRaises("ProviderError")
    /\ UNCHANGED <<messages, script, response, i, tool_results, final_text,
                   stub, last, conversation_history, outside>>

-----------------------------------------------------------------------------
(* The tool calls of a turn, all paths *)

\* result = await session.call_tool(block.name, tool_args): the call is sent
call_tool ==
    /\ pc = "invoke"
    /\ pc' = "call_tool"
    /\ events' = Append(events, <<"invoke", response.content[i].id>>)
    /\ UNCHANGED <<path, sessions, messages, request, calls, script, response,
                   i, tool_results, final_text, delivered, full_response,
                   outcome, stub, last, conversation_history, resources,
                   outside>>

\* the for loop is left after the first tool call
AfterResultFirstOnly(results) ==
    /\ messages' = Append(messages, [role |-> "user", text |-> <<>>, blocks |-> results])
    /\ pc' = "create"
    /\ UNCHANGED i

\* where the loop goes after the i-th block's result is appended
AfterResult(results) ==
    LET next == NextOfType(response.content, i + 1, "tool_use")
    IN  IF next # 0
        THEN /\ i' = next
             /\ pc' = IF Streaming THEN "marker" ELSE "invoke"
             /\ UNCHANGED messages
        ELSE /\ messages' = Append(messages, Results(results))
             /\ pc' = "create"
             /\ UNCHANGED i

\* the call returns: result_text is appended
call_tool_returns ==
    /\ pc = "call_tool"
    /\ \E result_text \in handle_call_tool(response.content[i].name) :
          tool_results' =
              Append(tool_results, ResultFor(response.content[i], result_text))
    /\ events' = Append(events, <<"result", response.content[i].id>>)
    /\ AfterResult(tool_results')
    /\ conversation_history' = AfterAppend(conversation_history, messages')
    /\ UNCHANGED <<path, sessions, request, calls, script, response,
                   final_text, delivered, full_response, outcome, stub, last,
                   resources, outside>>

\* the call raises: nothing in the loops catches it
call_tool_raises ==
    /\ pc = "call_tool"
    /\ events' = Append(events, <<"raise", response.content[i].id>>)
    /\ Raises("ToolExecutionError")
    /\ UNCHANGED <<messages, request, calls, script, response, i,
                   tool_results, final_text, stub, last,
                   conversation_history, outside>>

-----------------------------------------------------------------------------
(* process_streaming_query, process_streaming_query_gemini *)

\* async with self.anthropic.messages.stream(...) /
\* await client.aio.models.generate_content_stream(...)
stream_open ==
    /\ Streaming
    /\ CallsProvider
    /\ \E turn \in ProviderTurns(calls + 1) :
        /\ script' = Append(script, turn)
        /\ response' = turn
    /\ events' = Append(events, <<"provider", calls + 1>>)
    /\ i' = 1
    /\ pc' = "text"
    /\ resources' = resources \cup {"stream"}
    /\ UNCHANGED <<path, sessions, messages, tool_results, final_text,
                   delivered, full_response, outcome, stub, last,
                   conversation_history, outside>>

\* async for text in stream.text_stream: yield text /
\* if part.text: yield part.text
stream_text ==
    /\ Streaming
    /\ pc = "text"
    /\ LET k == NextText(response.content, i)
       IN  /\ k # 0
           /\ Yield(response.content[k].text)
           /\ events' = Append(events, <<"text", response.content[k].text>>)
           /\ i' = k + 1
    /\ UNCHANGED <<path, pc, sessions, messages, request, calls, script,
                   response, tool_results, final_text, outcome, stub, last,
                   conversation_history, resources, outside>>

\* the provider fails before the first event or in the middle of the stream
stream_fails ==
    /\ Streaming
    /\ pc = "text"
    /\ Raises("ProviderError")
    /\ UNCHANGED <<messages, request, calls, script, response, i,
                   tool_results, final_text, events, stub, last,
                   conversation_history, outside>>

\* the stream is drained: break, or echo the turn and go to its tool calls
stream_final ==
    /\ Streaming
    /\ pc = "text"
    /\ NextText(response.content, i) = 0
    /\ IF Breaks(response)
       THEN /\ StreamReturns
            /\ UNCHANGED <<messages, tool_results, i>>
       ELSE LET first == NextOfType(response.content, 1, "tool_use")
            IN  /\ tool_results' = <<>>
                /\ resources' = resources \ {"stream"}
                /\ IF first = 0
                   THEN /\ messages' = messages \o <<Echo(response), Results(<<>>)>>
                        /\ pc' = "create"
                        /\ UNCHANGED i
                   ELSE /\ messages' = Append(messages, Echo(response))
                        /\ pc' = "marker"
                        /\ i' = first
                /\ UNCHANGED <<path, sessions, delivered, full_response, outcome>>
    /\ conversation_history' = AfterAppend(conversation_history, messages')
    /\ UNCHANGED <<request, calls, script, response, final_text, events,
                   stub, last, outside>>

\* yield f"\n[Tool: {block.name}]\n"
yield_marker ==
    /\ pc = "marker"
    /\ Yield(ToolMarker(response.content[i].name))
    /\ events' = Append(events, <<"marker", response.content[i].name>>)
    /\ pc' = "invoke"
    /\ UNCHANGED <<path, sessions, messages, request, calls, script, response,
                   i, tool_results, final_text, outcome, stub, last,
                   conversation_history, resources, outside>>

\* the consumer stops reading between two chunks: the generator is closed
\* at its yield, its async with blocks release the stream and the session,
\* and the finally: of the wrapper stores what was sent so far
abandon ==
    /\ Streaming
    /\ events # <<>>
    /\ events[Len(events)][1] \in {"text", "marker"}
    /\ sessions' = update_conversation_history(sessions, Query, full_response)
    /\ Ends("abandoned", full_response, script)
    /\ UNCHANGED <<messages, request, calls, script, response, i,
                   tool_results, final_text, delivered, full_response, events,
                   stub, last, conversation_history, outside>>

-----------------------------------------------------------------------------
(* openai_stream: process_query_with_openai_agent *)

\* result = await client.process_query_with_openai_agent(...);
\* full_response = result.final_output; yield full_response; finally:
run_agent ==
    /\ path = "openai"
    /\ pc = "agent"
    /\ full_response' = TEXT_A
    /\ delivered' = <<full_response'>>
    /\ sessions' = update_conversation_history(sessions, Query, full_response')
    /\ Ends("done", full_response', script)
    /\ UNCHANGED <<messages, request, calls, script, response, i,
                   tool_results, final_text, events, stub, last,
                   conversation_history, outside>>

\* except Exception as e: full_response = f"Error: {e}"; yield; finally:
run_agent_fails ==
    /\ path = "openai"
    /\ pc = "agent"
    /\ full_response' = OpenAIErrorMsg("AgentError")
    /\ delivered' = <<full_response'>>
    /\ sessions' = update_conversation_history(sessions, Query, full_response')
    /\ Ends("error", full_response', script)
    /\ UNCHANGED <<messages, request, calls, script, response, i,
                   tool_results, final_text, events, stub, last,
                   conversation_history, outside>>

-----------------------------------------------------------------------------

Next ==
    \/ process_query_anthropic
    \/ \E p \in {"stream", "gemini", "openai"}, replay \in BOOLEAN :
          chat_post(p, replay)
    \/ \E status \in {401, 400} : chat_post_rejected(status)
    \/ clear_history
    \/ list_tools
    \/ list_tools_fails
    \/ create
    \/ create_fails
    \/ call_tool
    \/ call_tool_returns
    \/ call_tool_raises
    \/ stream_open
    \/ stream_text
    \/ stream_fails
    \/ stream_final
    \/ yield_marker
    \/ abandon
    \/ run_agent
    \/ run_agent_fails

Spec == Init /\ [][Next]_vars


-----------------------------------------------------------------------------
(* Reading a run *)

RECURSIVE BlocksOf(_)
\* all content blocks of a message list, in order
BlocksOf(msgs) ==
    IF msgs = <<>> THEN <<>> ELSE Head(msgs).blocks \o BlocksOf(Tail(msgs))

IsResult(b) == b.type \in {"tool_result", "function_response"}

RECURSIVE ToolUsesOf(_)
\* the tool calls emitted by a sequence of provider turns, in order
ToolUsesOf(turns) ==
    IF turns = <<>> THEN <<>>
    ELSE ToolUses(Head(turns).content) \o ToolUsesOf(Tail(turns))

RECURSIVE TextPartsOf(_)
\* the text parts of a sequence of provider turns, in turn order
TextPartsOf(turns) ==
    IF turns = <<>> THEN <<>>
    ELSE TextParts(Head(turns).content) \o TextPartsOf(Tail(turns))

\* the turns answered before the latest provider call
EarlierTurns == SubSeq(script, 1, calls - 1)

\* the entries of ev with this tag, in order
EventsOf(ev, tag) == SelectSeq(ev, LAMBDA e : e[1] = tag)

\* the position of the n-th provider call in events
ProviderAt(n) == CHOOSE k \in 1..Len(events) : events[k] = <<"provider", n>>

\* a turn that asks for tools / a final turn, as the provider states them
RequestsTools(t) == t.stop_reason = "tool_use" /\ ToolUses(t.content) # <<>>
IsDone(t) == t.stop_reason = "end_turn" /\ ToolUses(t.content) = <<>>

-----------------------------------------------------------------------------
(* C1 *)

\* C1: at every provider call of a query, the message list passed to the
\* provider holds as many tool results as the earlier turns of the query
\* emitted tool calls, and as many as it holds echoed tool calls: no call is
\* left unanswered.
C1_NoDanglingToolCall ==
    calls >= 1 =>
        /\ Len(SelectSeq(BlocksOf(request.messages), IsResult))
               = Len(ToolUsesOf(EarlierTurns))
        /\ Len(SelectSeq(BlocksOf(request.messages), IsResult))
               = Len(SelectSeq(BlocksOf(request.messages), IsToolUse))

\* a third provider call made after three tool calls were answered
C1_Witness ==
    /\ calls = 3
    /\ path = "stream"
    /\ Len(ToolUsesOf(EarlierTurns)) = 3

-----------------------------------------------------------------------------
(* C2 *)

\* the results in the message appended last before the latest provider call
LastResults == request.messages[Len(request.messages)].blocks

\* the tool calls of the turn before the latest provider call
LastToolUses == ToolUses(script[calls - 1].content)

\* C2 as stated: whenever a provider call follows a turn with tool calls, the
\* message list passed holds one tool result per requested call id, in request
\* order.
C2_OneResultPerCallId ==
    (calls >= 2 /\ LastToolUses # <<>>) =>
        [k \in 1..Len(LastResults) |-> LastResults[k].id]
            = [k \in 1..Len(LastToolUses) |-> LastToolUses[k].id]

\* C2 amended: whenever a provider call follows a turn with tool calls, the
\* last message passed holds exactly one result per requested call, in request
\* order; it refers to its call by the call id on the Anthropic paths and by
\* the call's name on the Gemini path, and no other message holds a result of
\* that turn.
C2_OneResultPerCall ==
    (calls >= 2 /\ LastToolUses # <<>>) =>
        /\ Len(LastResults) = Len(LastToolUses)
        /\ \A k \in 1..Len(LastResults) :
              /\ IsResult(LastResults[k])
              /\ IF path = "gemini" \/ outcome.path = "gemini"
                 THEN /\ LastResults[k].name = LastToolUses[k].name
                      /\ LastResults[k].id = No
                 ELSE LastResults[k].id = LastToolUses[k].id
        /\ Len(SelectSeq(BlocksOf(request.messages), IsResult))
               = Len(ToolUsesOf(EarlierTurns))

\* a Gemini call that follows a turn with two function calls
C2_Witness ==
    /\ path = "gemini"
    /\ calls = 2
    /\ Len(LastToolUses) = 2
    /\ Len(LastResults) = 2

-----------------------------------------------------------------------------
(* C3 *)

\* the runs of process_query_anthropic, running or ended
InRunQuery == path = "anthropic" \/ outcome.path = "anthropic"

\* C3: process_query_anthropic returns exactly at the final turn: once the
\* turns answered are tool-requesting turns (whose calls all returned)
\* followed by a Done turn without tool calls, it has returned, having issued
\* one provider call per turn; while it runs nothing but the bound on the
\* turns followed keeps it from taking its next step; and it never returns
\* after a turn that requests tools.
C3_ReturnsAtFinalTurn ==
    InRunQuery =>
        /\ ( /\ script # <<>>
             /\ IsDone(script[Len(script)])
             /\ \A n \in 1..(Len(script) - 1) : RequestsTools(script[n]) )
           => /\ path = "none"
              /\ outcome.kind = "returned"
              /\ calls = Len(script)
              /\ Len(EventsOf(events, "provider")) = Len(script)
        /\ outcome.kind = "returned" =>
              /\ ~RequestsTools(script[Len(script)])
              /\ \A n \in 1..(Len(script) - 1) : RequestsTools(script[n])
        /\ (path = "anthropic" /\ ~(pc = "create" /\ calls = MaxTurns))
           => ENABLED (list_tools \/ create \/ call_tool \/ call_tool_returns)

\* returned after two tool-requesting turns and a Done turn
C3_Witness ==
    /\ outcome.path = "anthropic"
    /\ outcome.kind = "returned"
    /\ Len(script) = 3
    /\ IsDone(script[3])
    /\ RequestsTools(script[1])
    /\ RequestsTools(script[2])

-----------------------------------------------------------------------------
(* C4 *)

-----------------------------------------------------------------------------
(* C5 *)

\* C5 as stated: when call_tool raises for one of the tool calls of a turn,
\* the query is not ended by it: nothing is raised to the caller, the loop
\* goes on, and the failure is recorded as the result of that call.
C5_ToolFailureIsolated ==
    \A k \in 1..Len(events) :
        events[k][1] = "raise" =>
            /\ outcome.kind \notin {"raised", "error"}
            /\ path # "none"
            /\ Len(SelectSeq(tool_results \o BlocksOf(messages), IsResult))
                   >= Len(EventsOf(events, "raise"))

-----------------------------------------------------------------------------
(* C6 *)

\* a streaming query ended normally against a provider that answered it as it
\* had answered a process_query_anthropic call that returned
SameContentBothWays ==
    /\ last.kind = "returned"
    /\ outcome.kind = "done"
    /\ outcome.script = last.script

StripNL(str) == SelectSeq(str, LAMBDA t : t # "\n")

-----------------------------------------------------------------------------
(* C7 *)

\* the tool calls sent that have not returned
Running ==
    {e[2] : e \in {events[m] : m \in {m \in 1..Len(events) : events[m][1] = "invoke"}}}
    \ {e[2] : e \in {events[m] : m \in {m \in 1..Len(events) : events[m][1] = "result"}}}

\* the latest thing the query did
LastEvent == events[Len(events)]

\* C7: provider turns are strictly sequential: when a provider call is issued
\* no tool call is running, every tool call requested by the turn before has
\* returned, and its result is in the message list passed to the call; while
\* a tool call is awaited it is the only one running.
C7_TurnsSequential ==
    /\ (events # <<>> /\ LastEvent[1] = "provider") =>
          /\ Running = {}
          /\ LastEvent[2] = calls
          /\ calls >= 2 =>
                /\ \A j \in 1..Len(LastToolUses) :
                      \E m \in 1..Len(events) :
                          events[m] = <<"result", LastToolUses[j].id>>
                /\ Len(LastResults) = Len(LastToolUses)
    /\ pc = "call_tool" => Running = {response.content[i].id}

\* a provider call issued after both tool calls of the turn before returned
C7_Witness ==
    /\ calls = 2
    /\ Len(LastToolUses) = 2
    /\ events[Len(events)] = <<"provider", 2>>
    /\ Len(EventsOf(events, "result")) = 2

-----------------------------------------------------------------------------
(* C8 *)

\* the runs of the streaming methods, running or ended
InStreaming == Streaming \/ outcome.path \in {"stream", "gemini"}

\* C8 as stated: a streaming query opens another provider stream after a turn
\* if and only if that turn accumulated at least one tool call, whatever stop
\* reason was reported: every turn followed by another stream had tool calls,
\* and the turn at which the sequence ended had none.
C8_ContinuesIffToolCalls ==
    InStreaming =>
        /\ \A n \in 2..calls : ToolUses(script[n - 1].content) # <<>>
        /\ outcome.kind = "done" => ToolUses(script[Len(script)].content) = <<>>

-----------------------------------------------------------------------------
(* C9 *)

\* the markers yielded and the tool calls sent since the latest provider call
SinceProvider(tag) ==
    EventsOf(SubSeq(events, ProviderAt(calls) + 1, Len(events)), tag)

\* C9 as stated: when a streamed turn completes with k tool calls, k marker
\* chunks are yielded first and the tools are invoked only then: whenever a
\* tool call of the turn is sent, all k markers have been yielded.
C9_AllMarkersFirst ==
    (InStreaming /\ pc = "call_tool") =>
        Len(SinceProvider("marker")) = Len(ToolUses(response.content))

\* what the events of a streaming query put on the wire, in order
RECURSIVE ChunksOf(_)
ChunksOf(ev) ==
    IF ev = <<>> THEN <<>>
    ELSE (IF Head(ev)[1] = "text" THEN <<Head(ev)[2]>>
          ELSE IF Head(ev)[1] = "marker"
               THEN << <<"\n", "[Tool: ", Head(ev)[2], "]", "\n">> >>
          ELSE <<>>) \o ChunksOf(Tail(ev))

\* C9 amended: in a streaming query each tool call that is invoked is
\* announced by one marker chunk "\n[Tool: <name>]\n" carrying its name,
\* yielded immediately before that call is sent and after the call before it
\* has returned, in request order: when the j-th tool call of a turn is sent,
\* exactly j markers of the turn have been yielded, and a turn whose k calls
\* all returned has yielded exactly k.  The chunks delivered are the text
\* deltas and these markers only (and the error chunk that ends a failed
\* query): a tool call is forwarded in no other form.
C9_MarkerBeforeEachCall ==
    InStreaming =>
        /\ (events # <<>> /\ LastEvent[1] = "invoke") =>
              events[Len(events) - 1]
                  = <<"marker", response.content[i].name>>
        /\ pc = "call_tool" =>
              /\ SinceProvider("marker")
                   = [j \in 1..Len(SinceProvider("invoke")) |->
                        <<"marker", ToolUses(response.content)[j].name>>]
              /\ SinceProvider("invoke")
                   = [j \in 1..Len(SinceProvider("invoke")) |->
                        <<"invoke", ToolUses(response.content)[j].id>>]
        /\ (pc = "create" /\ calls >= 1) =>
              Len(SinceProvider("marker")) = Len(ToolUses(response.content))
        /\ IF outcome.kind = "error"
           THEN SubSeq(delivered, 1, Len(delivered) - 1) = ChunksOf(events)
           ELSE delivered = ChunksOf(events)

\* the second tool call of a streamed turn is sent, after two markers
C9_Witness ==
    /\ path = "stream"
    /\ pc = "call_tool"
    /\ Len(SinceProvider("marker")) = 2
    /\ Len(SinceProvider("result")) = 1

-----------------------------------------------------------------------------
(* C10 *)

\* C10: when the provider fails during a streaming query the query ends
\* there: the chunks delivered before stay as they were, one error chunk is
\* delivered after them, and no provider call or tool call follows; only a
\* next request, accepted or rejected, starts again from nothing.
C10_ProviderFailureTerminal ==
    [][ /\ (Streaming /\ pc = "text" /\ outcome'.kind = "error") =>
              /\ delivered' =
                    Append(delivered, <<"\n", "[Error: ", "ProviderError", "]">>)
              /\ full_response' = Concat(delivered')
              /\ path' = "none"
              /\ pc' = "idle"
              /\ calls' = calls
              /\ events' = events
        /\ (pc = "idle" /\ outcome.kind = "error") =>
              \/ /\ events' = events
                 /\ calls' = calls
                 /\ delivered' = delivered
              \/ /\ pc' \in {"list_tools", "agent"} \/ outcome'.kind = "rejected"
                 /\ events' = <<>>
                 /\ calls' = 0 ]_vars

\* a stream that failed after a text chunk and a marker had been delivered
C10_Witness ==
    /\ outcome.kind = "error"
    /\ outcome.path = "stream"
    /\ pc = "idle"
    /\ calls = 2
    /\ Len(delivered) = 4
    /\ delivered[4] = ErrorMsg("ProviderError")
    /\ events[Len(events)] = <<"text", TEXT_A>>

-----------------------------------------------------------------------------
(* C11 *)

\* the results of the current turn collected so far
ResultsSoFar ==
    IF pc = "create" THEN messages[Len(messages)].blocks ELSE tool_results

-----------------------------------------------------------------------------
(* C12 *)

\* msgs begins with the messages of prefix
StartsWith(msgs, prefix) ==
    /\ Len(msgs) >= Len(prefix)
    /\ SubSeq(msgs, 1, Len(prefix)) = prefix

\* C12: a query never changes the history its caller holds: the list passed
\* as conversation_history holds the messages of the session history when the
\* query starts and the same messages after every step of the query, whether
\* the query returns, fails or is abandoned; the session history is changed
\* by no step of the query method, only by its caller appending the new pair
\* when the query has ended; the user message, the assistant echoes and the
\* tool results go to the working list alone, which only grows.
C12_HistoryNotMutated ==
    [][ /\ (path = "none" /\ path' # "none") =>
              /\ conversation_history' = sessions
              /\ sessions' = sessions
              /\ Len(messages') = Len(sessions) + 1
        /\ path # "none" =>
              /\ conversation_history' = conversation_history
              /\ \/ sessions' = sessions
                 \/ /\ path' = "none"
                    /\ path # "anthropic"
                    /\ sessions' = sessions \o
                          << [role |-> "user", text |-> <<"q">>, blocks |-> <<>>],
                             [role |-> "assistant", text |-> full_response',
                              blocks |-> <<>>] >>
              /\ StartsWith(messages', messages) ]_vars

\* a streaming query on a session with history was abandoned after its
\* working list had grown by the user message, an echo and tool results
C12_Witness ==
    /\ outcome.kind = "abandoned"
    /\ conversation_history = <<StrMsg("user", Query), StrMsg("assistant", TEXT_A)>>
    /\ Len(messages) = Len(conversation_history) + 3
    /\ Len(sessions) = Len(conversation_history) + 2

-----------------------------------------------------------------------------
(* C14 *)

\* the tool calls sent by the current query, in order
Invoked == EventsOf(events, "invoke")

-----------------------------------------------------------------------------
(* C15 *)

\* C15: a query that ends in a terminal error leaves the session usable, on
\* the Anthropic, the Gemini and the OpenAI path: the step that ends it sends
\* the error as one last chunk and stores the reply ending in that error in
\* the query's transcript entry; then nothing is left running, a next query
\* on the session is accepted on every path (for the histories followed
\* here), and it starts from the stored history alone: no call, chunk or text
\* of the failed query is carried over.
C15_ErrorKeepsSession ==
    /\ [][ (path # "none" /\ outcome'.kind = "error") =>
              LET e == delivered'[Len(delivered')]
              IN  /\ path \in {"stream", "gemini", "openai"}
                  /\ delivered' = Append(delivered, e)
                  /\ IF path = "openai"
                     THEN /\ e = <<"Error: ", "AgentError">>
                          /\ full_response' = e
                     ELSE /\ Len(e) = 4
                          /\ e[1] = "\n" /\ e[2] = "[Error: " /\ e[4] = "]"
                          /\ full_response' = full_response \o e
                  /\ sessions' = sessions \o
                        << [role |-> "user", text |-> <<"q">>, blocks |-> <<>>],
                           [role |-> "assistant", text |-> full_response',
                            blocks |-> <<>>] >> ]_vars
    /\ [] /\ outcome.kind = "error" =>
               /\ path = "none"
               /\ resources = {}
               /\ sessions \in Histories \cup ErrorHistories =>
                     \A p \in {"stream", "gemini", "openai"} :
                         ENABLED chat_post(p, FALSE)
          /\ (path # "none" /\ pc \in {"list_tools", "agent"}) =>
               /\ calls = 0
               /\ events = <<>>
               /\ delivered = <<>>
               /\ full_response = <<>>
               /\ outcome.kind = "none"
               /\ conversation_history = sessions
               /\ Len(messages) = Len(sessions) + 1

\* a Gemini query that ended normally on a session whose query before had
\* failed on the OpenAI path
C15_Witness ==
    /\ outcome.kind = "done"
    /\ outcome.path = "gemini"
    /\ conversation_history
         = <<StrMsg("user", Query), StrMsg("assistant", OpenAIErrorMsg("AgentError"))>>
    /\ Len(sessions) = 4
    /\ calls = 2

-----------------------------------------------------------------------------
(* C20 *)

\* the length of the working list at the first provider call
Base == Len(conversation_history) + 1

\* the two messages appended after the n-th turn, as passed to the next call
EchoOf(n) == request.messages[Base + 2 * n - 1]
ResultsOf(n) == request.messages[Base + 2 * n]

\* what frames the content of a turn as stated: two messages per turn
\* followed, an assistant message and a message of the turn's tool results,
\* one per tool call; a turn that ends the loop appends nothing
TwoMessagesPerTurn ==
    /\ calls >= 1 =>
          /\ Len(request.messages) = Base + 2 * (calls - 1)
          /\ \A n \in 1..(calls - 1) :
                /\ EchoOf(n).role \in {"assistant", "model"}
                /\ EchoOf(n).text = <<>>
                /\ ResultsOf(n).role = "user"
                /\ ResultsOf(n).text = <<>>
                /\ Len(ResultsOf(n).blocks) = Len(ToolUses(script[n].content))
                /\ \A k \in 1..Len(ResultsOf(n).blocks) :
                      ResultsOf(n).blocks[k].type
                          \in {"tool_result", "function_response"}
    /\ outcome.kind \in {"returned", "done"} /\ outcome.path # "openai" =>
          messages = request.messages

\* C20 as stated: between two consecutive provider calls the working list
\* grows by exactly two messages: an assistant message holding the content of
\* the provider turn unchanged, then one message with all tool results of
\* that turn; a turn that ends the loop appends nothing.
C20_RawTurnThenResults ==
    /\ TwoMessagesPerTurn
    /\ \A n \in 1..(calls - 1) : EchoOf(n).blocks = script[n].content

\* C20 amended: as stated on the Anthropic paths; on the Gemini path the
\* model message holds the text parts and the function calls of the turn, in
\* the order received, and leaves out the parts whose text is empty.
C20_TurnThenResults ==
    /\ TwoMessagesPerTurn
    /\ \A n \in 1..(calls - 1) :
          LET turn == script[n].content
          IN  IF path = "gemini" \/ outcome.path = "gemini"
              THEN /\ \A k \in 1..Len(EchoOf(n).blocks) :
                         \/ EchoOf(n).blocks[k].type = "tool_use"
                         \/ EchoOf(n).blocks[k].text # <<>>
                   /\ Len(EchoOf(n).blocks)
                         = Cardinality({k \in 1..Len(turn) :
                               turn[k].type = "tool_use" \/ turn[k].text # <<>>})
                   /\ \A k \in 1..Len(EchoOf(n).blocks) :
                         \E m \in k..Len(turn) :
                             /\ turn[m] = EchoOf(n).blocks[k]
                             /\ m - k = Cardinality({j \in 1..m :
                                   turn[j].type = "text" /\ turn[j].text = <<>>})
              ELSE EchoOf(n).blocks = turn

\* a third Gemini call, after a turn with an empty text part and a turn with
\* text and two function calls
C20_Witness ==
    /\ path = "gemini"
    /\ calls = 3
    /\ Len(script[1].content) = 2
    /\ script[1].content[1].text = <<>>
    /\ Len(EchoOf(1).blocks) = 1
    /\ Len(EchoOf(2).blocks) = 3
    /\ Len(ResultsOf(2).blocks) = 2

-----------------------------------------------------------------------------
(* The shared MCPClient: app.state.client serves every request *)

_anthropic_display_name == "Claude Sonnet 4.6"
_openai_display_name == "OpenAI GPT-4.1"
_gemini_display_name == "Google Gemini"

\* the values the settings routes may store
ApiKeys == {"k1", "k2"}
ModelIds == {"", "my-model"}

\* the provider names handed to _get_model_id: the three of the client and
\* two others
ProviderNames == {"anthropic", "gemini", "openai", "mistral", ""}

\* os.environ.get(name, "")
Getenv(name) == IF environ[name] = None THEN "" ELSE environ[name]

\* the default is returned whatever PREFERRED_MODEL_ID holds
_get_model_id_default(provider) ==
    IF provider = "anthropic" THEN "claude-sonnet-4-6"
    ELSE IF provider = "gemini" THEN "gemini-2.0-flash"
    ELSE "gpt-4.1"

_get_model_id(provider) ==
    LET preferred == Getenv("PREFERRED_MODEL_ID")
    IN  IF preferred # "" THEN preferred
        ELSE IF provider = "anthropic" THEN "claude-sonnet-4-6"
        ELSE IF provider = "gemini" THEN "gemini-2.0-flash"
        ELSE "gpt-4.1"

\* AsyncAnthropic() reads ANTHROPIC_API_KEY when it is constructed: a client
\* is named by the key it holds
AsyncAnthropic == Getenv("ANTHROPIC_API_KEY")

\* self._ensure_anthropic()
_ensure_anthropic ==
    LET key == Getenv("ANTHROPIC_API_KEY")
    IN  IF client.anthropic = None \/ key # client._anthropic_key
        THEN [client EXCEPT !.anthropic = AsyncAnthropic, !._anthropic_key = key]
        ELSE client

\* the name a method passes to _get_model_id and the label it stores
ProviderOf(p) ==
    IF p \in {"anthropic", "stream"} THEN "anthropic" ELSE p

DisplayName(p) ==
    IF p \in {"anthropic", "stream"} THEN _anthropic_display_name
    ELSE IF p = "gemini" THEN _gemini_display_name
    ELSE _openai_display_name

\* a settings route: mcp_env_updater(key, value), then mcp_env_loader()
update_env(key, value) ==
    /\ value # environ[key]
    /\ environ' = [environ EXCEPT ![key] = value]
    /\ UNCHANGED <<client, running, model_id>>
    /\ UNCHANGED <<query_vars, server_vars, dotenv_vars, more_vars>>

\* the first lines of a query method, up to its first await
start_query(q, p) ==
    /\ running[q].pc = "idle"
    /\ client' =
          IF p \in {"anthropic", "stream"}
          THEN [_ensure_anthropic EXCEPT !.model_used = DisplayName(p)]
          ELSE IF p = "gemini"
          THEN [client EXCEPT !.model_used = DisplayName(p)]
          ELSE client
    /\ running' = [running EXCEPT ![q] =
          [NotStarted EXCEPT !.provider = p, !.pc = "loop",
              !.alone = IF p \in {"anthropic", "stream"} THEN client'.anthropic
                        ELSE IF p = "gemini" THEN "genai.Client"
                        ELSE "Agent"]]
    /\ UNCHANGED <<environ, model_id>>
    /\ UNCHANGED <<query_vars, server_vars, dotenv_vars, more_vars>>

\* one provider call of a running query: self.anthropic.messages.create(...),
\* self.anthropic.messages.stream(...), client.aio.models
\* .generate_content_stream(...) or Runner.run(...), with model=_get_model_id
provider_call(q) ==
    /\ running[q].pc = "loop"
    /\ LET p == running[q].provider
       IN  /\ running' = [running EXCEPT ![q] =
                 [@ EXCEPT !.used = IF p \in {"anthropic", "stream"}
                                    THEN client.anthropic
                                    ELSE running[q].alone,
                           !.preferred = environ.PREFERRED_MODEL_ID,
                           !.model = _get_model_id(ProviderOf(p)),
                           !.pc = IF p = "openai" THEN "done" ELSE "loop",
                           !.label = IF p = "openai"
                                     THEN _openai_display_name ELSE None]]
           /\ client' = IF p = "openai"
                        THEN [client EXCEPT !.model_used = _openai_display_name]
                        ELSE client
           /\ model_id' = [provider |-> ProviderOf(p),
                           preferred |-> environ.PREFERRED_MODEL_ID,
                           model |-> _get_model_id(ProviderOf(p))]
    /\ UNCHANGED environ
    /\ UNCHANGED <<query_vars, server_vars, dotenv_vars, more_vars>>

\* the query ends after a provider call and the page shows its answer:
\* "model": e.get("model", client.model_used or model_type)
end_query(q) ==
    /\ running[q].pc = "loop"
    /\ running[q].used # None
    /\ running' = [running EXCEPT ![q] =
          [@ EXCEPT !.pc = "done", !.label = client.model_used]]
    /\ UNCHANGED <<environ, client, model_id>>
    /\ UNCHANGED <<query_vars, server_vars, dotenv_vars, more_vars>>

\* the request is over; its slot serves the next request
next_request(q) ==
    /\ running[q].pc = "done"
    /\ running' = [running EXCEPT ![q] = NotStarted]
    /\ UNCHANGED <<environ, client, model_id>>
    /\ UNCHANGED <<query_vars, server_vars, dotenv_vars, more_vars>>

\* _get_model_id applied to a provider name
get_model_id(provider) ==
    /\ model_id' = [provider |-> provider,
                    preferred |-> environ.PREFERRED_MODEL_ID,
                    model |-> _get_model_id(provider)]
    /\ model_id' # model_id
    /\ UNCHANGED <<environ, client, running>>
    /\ UNCHANGED <<query_vars, server_vars, dotenv_vars, more_vars>>

NextClient ==
    \/ \E value \in ApiKeys : update_env("ANTHROPIC_API_KEY", value)
    \/ \E value \in ModelIds : update_env("PREFERRED_MODEL_ID", value)
    \/ \E q \in Queries, p \in {"anthropic", "stream", "gemini", "openai"} :
          start_query(q, p)
    \/ \E q \in Queries : provider_call(q)
    \/ \E q \in Queries : end_query(q)
    \/ \E q \in Queries : next_request(q)
    \/ \E provider \in ProviderNames : get_model_id(provider)

SpecClient == Init /\ [][NextClient]_vars

-----------------------------------------------------------------------------
(* C13 *)

\* every provider call of a query went to the provider client the query
\* would use when run alone
UsesOwnClient ==
    \A q \in Queries :
        running[q].used # None => running[q].used = running[q].alone

\* the model shown for the answer of a finished query is the one of the
\* method that produced it
ReportsOwnModel ==
    \A q \in Queries :
        running[q].pc = "done" => running[q].label = DisplayName(running[q].provider)

\* C13 as stated: two queries running concurrently on the same MCPClient
\* share no mutable state: under every interleaving each query uses the
\* provider client and model it would use alone, and nothing the other query
\* writes on the client (model_used, the cached Anthropic client and its key)
\* changes what it does or reports.
C13_NoSharedState == UsesOwnClient /\ ReportsOwnModel

-----------------------------------------------------------------------------
(* C16 *)

\* the rule, stated on one call of _get_model_id
FollowsRule(provider, preferred, model) ==
    IF preferred \notin {None, ""}
    THEN model = preferred
    ELSE model = CASE provider = "anthropic" -> "claude-sonnet-4-6"
                   [] provider = "gemini" -> "gemini-2.0-flash"
                   [] OTHER -> "gpt-4.1"

\* C16: the model identifier of every provider call, and of every call of
\* _get_model_id, is PREFERRED_MODEL_ID when that is set and not empty, and
\* otherwise claude-sonnet-4-6 for anthropic, gemini-2.0-flash for gemini and
\* gpt-4.1 for every other provider name.
C16_ModelIdRule ==
    /\ model_id.provider # None =>
          FollowsRule(model_id.provider, model_id.preferred, model_id.model)
    /\ \A q \in Queries :
          running[q].model # None =>
              FollowsRule(ProviderOf(running[q].provider),
                          running[q].preferred, running[q].model)

\* a Gemini query called its provider under an override, an Anthropic query
\* without one, and an unknown provider name was resolved with the override
\* set to the empty string
C16_Witness ==
    /\ \E q \in Queries :
          /\ running[q].provider = "gemini"
          /\ running[q].preferred = "my-model"
          /\ running[q].model = "my-model"
    /\ \E q \in Queries :
          /\ running[q].provider = "stream"
          /\ running[q].preferred = None
          /\ running[q].model = "claude-sonnet-4-6"
    /\ model_id = [provider |-> "mistral", preferred |-> "", model |-> "gpt-4.1"]

-----------------------------------------------------------------------------
(* The tool server: get_historical_data_from_influxdb_tool *)

MaxMeasurementLen == 2
MaxRangeLen == 3

\* characters a measurement name is drawn from: a word character, the two
\* other characters of the pattern and one outside it
MeasurementChars == {"a", "-", ".", " "}

\* characters a time range is drawn from: a digit, two units that also spell
\* "ms", and a letter that is no unit
RangeChars == {"1", "m", "s", "x"}

\* all strings over an alphabet up to a length
Strings(chars, maxlen) == UNION {[1..n -> chars] : n \in 0..maxlen}

Str(s) == [kind |-> "str", value |-> s]

\* what the arguments dict may hold for a key: nothing, None, a number, a string
ArgumentValues(chars, maxlen) ==
    {Absent, [kind |-> "None", value |-> <<>>], [kind |-> "int", value |-> <<"5">>]}
        \cup {Str(s) : s \in Strings(chars, maxlen)}

\* the header sets of a request: complete, each required one missing or
\* empty, the host taken from EDGE_URL, the port absent or not a number
InfluxHeaders ==
    LET full == [NoHeaders EXCEPT !["INFLUX_HOST"] = "influx/",
                                  !["INFLUX_PORT"] = "8086",
                                  !["INFLUX_USERNAME"] = "user",
                                  !["INFLUX_PASSWORD"] = "pw"]
    IN  { full,
          [full EXCEPT !["INFLUX_PORT"] = None],
          [full EXCEPT !["INFLUX_PORT"] = "abc"],
          [full EXCEPT !["INFLUX_HOST"] = None, !["EDGE_URL"] = "edge"],
          [full EXCEPT !["INFLUX_HOST"] = None],
          [full EXCEPT !["INFLUX_USERNAME"] = ""],
          [full EXCEPT !["INFLUX_PASSWORD"] = None] }

\* not x, for a header value or an argument
Falsy(v) == v = None \/ v = ""
NotArg(a) == a.kind \in {"absent", "None"} \/ (a.kind = "str" /\ a.value = <<>>)

McpError(message) == [kind |-> "McpError", message |-> message]

\* \w and \d on the characters used here
IsWord(c) == c \in {"a", "1", "_", "m", "s", "x", "h"}
IsDigit(c) == c = "1"

\* re.match(r'[\w][\w\-\.]*', s): a prefix of s matches
PrefixMatchesMeasurement(s) == Len(s) >= 1 /\ IsWord(s[1])

\* re.fullmatch(r'[\w][\w\-\.]*', s)
FullMatchMeasurement(s) ==
    /\ Len(s) >= 1
    /\ IsWord(s[1])
    /\ \A k \in 2..Len(s) : IsWord(s[k]) \/ s[k] \in {"-", "."}

\* re.fullmatch(r'\d+(ms|[usmhdw])', s)
FullMatchTimeRange(s) ==
    \E n \in 1..(Len(s) - 1) :
        /\ \A k \in 1..n : IsDigit(s[k])
        /\ \/ SubSeq(s, n + 1, Len(s)) = <<"m", "s">>
           \/ /\ Len(s) = n + 1
              /\ s[n + 1] \in {"u", "s", "m", "h", "d", "w"}

\* get_influx_connection_params(request): the parameters, or what it raises
get_influx_connection_params(h) ==
    LET influx_host == IF Falsy(h["INFLUX_HOST"]) THEN h["EDGE_URL"]
                       ELSE h["INFLUX_HOST"]
        influx_port == IF h["INFLUX_PORT"] = None THEN "8086"
                       ELSE h["INFLUX_PORT"]
    IN  IF Falsy(influx_host)
        THEN McpError(<<"INFLUX_HOST", " header is required">>)
        ELSE IF Falsy(h["INFLUX_USERNAME"])
        THEN McpError(<<"INFLUX_USERNAME", " header is required">>)
        ELSE IF Falsy(h["INFLUX_PASSWORD"])
        THEN McpError(<<"INFLUX_PASSWORD", " header is required">>)
        ELSE IF influx_port # "8086"
        THEN [kind |-> "ValueError", message |-> <<"invalid literal for int()">>]
        ELSE [kind |-> "params",
              message |-> <<IF influx_host = "influx/" THEN "influx" ELSE influx_host,
                            influx_port, h["INFLUX_USERNAME"],
                            h["INFLUX_PASSWORD"]>>]

\* arguments.get("time_range", "1h")
TimeRangeOf(a) == IF a.time_range.kind = "absent" THEN Str(<<"1", "h">>)
                  ELSE a.time_range

\* the same checks with re.match in place of re.fullmatch on the measurement
ValidatePrefix(a) ==
    LET measurement == a.measurement
        time_range == TimeRangeOf(a)
    IN  IF NotArg(measurement)
        THEN McpError(<<"'measurement' parameter is required">>)
        ELSE IF measurement.kind # "str"
        THEN [kind |-> "error_response", message |-> <<"query_failed">>]
        ELSE IF ~PrefixMatchesMeasurement(measurement.value)
        THEN McpError(<<"Invalid measurement name '", measurement.value, "'">>)
        ELSE IF time_range.kind # "str"
        THEN [kind |-> "error_response", message |-> <<"query_failed">>]
        ELSE IF ~FullMatchTimeRange(time_range.value)
        THEN McpError(<<"Invalid time_range '", time_range.value, "'">>)
        ELSE [kind |-> "valid", message |-> <<>>]

\* the checks between the extraction of the parameters and the query: the
\* McpError raised, the error response the TypeError of re.fullmatch on a
\* value that is no string ends in, or "valid"
Validate(a) ==
    LET measurement == a.measurement
        time_range == TimeRangeOf(a)
    IN  IF NotArg(measurement)
        THEN McpError(<<"'measurement' parameter is required">>)
        ELSE IF measurement.kind # "str"
        THEN [kind |-> "error_response", message |-> <<"query_failed">>]
        ELSE IF ~FullMatchMeasurement(measurement.value)
        THEN McpError(<<"Invalid measurement name '", measurement.value, "'">>)
        ELSE IF time_range.kind # "str"
        THEN [kind |-> "error_response", message |-> <<"query_failed">>]
        ELSE IF ~FullMatchTimeRange(time_range.value)
        THEN McpError(<<"Invalid time_range '", time_range.value, "'">>)
        ELSE [kind |-> "valid", message |-> <<>>]

\* what influx_client.query(...) and the formatting after it end in
QueryOutcomes ==
    { [kind |-> "success", message |-> <<"data">>],
      [kind |-> "success", message |-> <<"No data found for the specified query">>],
      [kind |-> "error_response", message |-> <<"influxdb_client_error">>] }

\* the whole handler
get_historical_data_from_influxdb_tool ==
    /\ reply = NoReply
    /\ LET params == get_influx_connection_params(headers)
           checked == Validate(arguments)
       IN  IF params.kind # "params"
           THEN /\ reply' = params
                /\ UNCHANGED influx
           ELSE IF checked.kind # "valid"
           THEN /\ reply' = checked
                /\ UNCHANGED influx
           ELSE /\ influx' = Append(influx,
                       [client |-> params.message,
                        query |-> <<"SELECT * FROM \"", arguments.measurement.value,
                                    "\" WHERE time > now() - ",
                                    TimeRangeOf(arguments).value>>])
                /\ reply' \in QueryOutcomes
    /\ UNCHANGED <<headers, arguments, connections>>
    /\ UNCHANGED <<query_vars, client_vars, dotenv_vars, more_vars>>

\* a tool call has reached the server: its headers and its arguments
InitInflux ==
    /\ QueriesIdle /\ ClientIdle /\ DotenvIdle /\ MoreIdle
    /\ headers \in InfluxHeaders
    /\ \E m \in ArgumentValues(MeasurementChars, MaxMeasurementLen),
          t \in ArgumentValues(RangeChars, MaxRangeLen) :
          arguments = [measurement |-> m, time_range |-> t]
    /\ reply = NoReply
    /\ influx = <<>>
    /\ connections = <<>>

NextInflux == get_historical_data_from_influxdb_tool

SpecInflux == InitInflux /\ [][NextInflux]_vars

-----------------------------------------------------------------------------
(* C17 *)

\* the value given for measurement fully matches [\w][\w\-.]*
MeasurementOk ==
    /\ arguments.measurement.kind = "str"
    /\ FullMatchMeasurement(arguments.measurement.value)

\* the value given for time_range, or "1h" when none is given, fully matches
\* \d+(ms|[usmhdw])
TimeRangeOk ==
    /\ TimeRangeOf(arguments).kind = "str"
    /\ FullMatchTimeRange(TimeRangeOf(arguments).value)

\* the McpError raised is one of the two about the measurement
MeasurementError ==
    /\ reply.kind = "McpError"
    /\ reply.message[1]
          \in {"'measurement' parameter is required", "Invalid measurement name '"}

\* an InfluxDB client was created and a query executed only on two matching
\* values, and then exactly one, with these values
OnlyValidReachInflux ==
    /\ influx # <<>> => MeasurementOk /\ TimeRangeOk
    /\ influx # <<>> =>
          /\ Len(influx) = 1
          /\ influx[1].query[2] = arguments.measurement.value
          /\ influx[1].query[4] = TimeRangeOf(arguments).value

\* C17 as stated: a client is created and a query executed only if both
\* values match; for every other input the tool raises McpError before any
\* client is created, and when both values are invalid the error is the one
\* about the measurement.
C17_InvalidAlwaysMcpError ==
    reply # NoReply =>
        /\ OnlyValidReachInflux
        /\ ~(MeasurementOk /\ TimeRangeOk) => reply.kind = "McpError" /\ influx = <<>>
        /\ ~MeasurementOk /\ ~TimeRangeOk => MeasurementError

\* the arguments hold strings, None or nothing, but no value of another type
StringArguments ==
    /\ arguments.measurement.kind # "int"
    /\ arguments.time_range.kind = "str" \/ arguments.time_range.kind = "absent"

\* C17 amended: a client is created and a query executed only if both values
\* match. When get_influx_connection_params succeeds and the arguments are
\* strings or missing, every other input raises McpError before any client
\* is created, the measurement one when both are invalid, and two matching
\* values do create a client and run one query. When a required InfluxDB
\* header is missing the McpError names that header whatever the arguments
\* are, and a value that is no string makes the tool return the query_failed
\* error response, or raise the McpError of an earlier check, without
\* creating a client.
C17_ValidatedBeforeInflux ==
    reply # NoReply =>
        LET params == get_influx_connection_params(headers)
        IN  /\ OnlyValidReachInflux
            /\ params.kind = "params" /\ StringArguments =>
                  /\ ~(MeasurementOk /\ TimeRangeOk) =>
                        reply.kind = "McpError" /\ influx = <<>>
                  /\ ~MeasurementOk /\ ~TimeRangeOk => MeasurementError
                  /\ MeasurementOk /\ TimeRangeOk =>
                        influx # <<>> /\ reply.kind \in {"success", "error_response"}
            /\ params.kind # "params" =>
                  /\ reply = params
                  /\ influx = <<>>
                  /\ reply.kind = "McpError" =>
                        reply.message[2] = " header is required"
            /\ params.kind = "params" /\ ~StringArguments =>
                  /\ influx = <<>>
                  /\ \/ reply = [kind |-> "error_response",
                                 message |-> <<"query_failed">>]
                     \/ reply.kind = "McpError"

\* with complete headers, a measurement with a space and a time range with
\* an unknown unit were rejected with the measurement error
C17_Witness ==
    /\ get_influx_connection_params(headers).kind = "params"
    /\ arguments.measurement = Str(<<"a", " ">>)
    /\ arguments.time_range = Str(<<"1", "x">>)
    /\ reply = McpError(<<"Invalid measurement name '", <<"a", " ">>, "'">>)
    /\ influx = <<>>

-----------------------------------------------------------------------------
(* The tool server: get_litmus_connection *)

MaxRequests == 2

\* the authentication headers of a request: absent, empty or given
EdgeHeaders ==
    {[NoHeaders EXCEPT !["EDGE_URL"] = u,
                       !["EDGE_API_CLIENT_ID"] = c,
                       !["EDGE_API_CLIENT_SECRET"] = s,
                       !["VALIDATE_CERTIFICATE"] = v] :
        u \in {None, "", "https://edge1", "https://edge2"},
        c \in {None, "", "id"},
        s \in {None, "", "secret"},
        v \in {None, "TRUE", "false"}}

\* str.lower() on the values used here
Lower(v) == IF v = "TRUE" THEN "true" ELSE v

\* request.headers.get("VALIDATE_CERTIFICATE", "false").lower() == "true"
ValidateCertificate(h) ==
    Lower(IF h["VALIDATE_CERTIFICATE"] = None THEN "false"
          ELSE h["VALIDATE_CERTIFICATE"]) = "true"

\* the checks in another order: the client id first
_validate_auth_headers_id_first(edge_url, client_id, client_secret) ==
    IF Falsy(client_id)
    THEN McpError(<<"EDGE_API_CLIENT_ID", " header is required">>)
    ELSE IF Falsy(edge_url)
    THEN McpError(<<"EDGE_URL", " header is required">>)
    ELSE IF Falsy(client_secret)
    THEN McpError(<<"EDGE_API_CLIENT_SECRET", " header is required">>)
    ELSE NoReply

\* the McpError raised, NoReply when the function returns
_validate_auth_headers(edge_url, client_id, client_secret) ==
    IF Falsy(edge_url)
    THEN McpError(<<"EDGE_URL", " header is required">>)
    ELSE IF Falsy(client_id)
    THEN McpError(<<"EDGE_API_CLIENT_ID", " header is required">>)
    ELSE IF Falsy(client_secret)
    THEN McpError(<<"EDGE_API_CLIENT_SECRET", " header is required">>)
    ELSE NoReply

\* the arguments of new_le_connection(...) for these headers
ConnectionArgs(h) ==
    [edge_url |-> h["EDGE_URL"],
     client_id |-> h["EDGE_API_CLIENT_ID"],
     client_secret |-> h["EDGE_API_CLIENT_SECRET"],
     validate_certificate |-> ValidateCertificate(h)]

\* a tool call reaches the server
tool_request(h) ==
    /\ reply = NoReply
    /\ headers = NoHeaders
    /\ Len(connections) < MaxRequests
    /\ headers' = h
    /\ UNCHANGED <<arguments, reply, influx, connections>>
    /\ UNCHANGED <<query_vars, client_vars, dotenv_vars, more_vars>>

\* the whole function: new_le_connection returns a connection or raises
get_litmus_connection ==
    /\ reply = NoReply
    /\ headers # NoHeaders
    /\ LET checked == _validate_auth_headers(headers["EDGE_URL"],
                          headers["EDGE_API_CLIENT_ID"],
                          headers["EDGE_API_CLIENT_SECRET"])
       IN  IF checked # NoReply
           THEN /\ reply' = checked
                /\ UNCHANGED connections
           ELSE /\ connections' = Append(connections, ConnectionArgs(headers))
                /\ \/ reply' = [kind |-> "connection",
                                message |-> <<Len(connections')>>]
                   \/ reply' = McpError(<<"Failed to connect to Litmus Edge: ",
                                          "ConnectionError">>)
    /\ UNCHANGED <<headers, arguments, influx>>
    /\ UNCHANGED <<query_vars, client_vars, dotenv_vars, more_vars>>

\* the tool call is over; the server waits for the next one
tool_done ==
    /\ reply # NoReply
    /\ headers' = NoHeaders
    /\ reply' = NoReply
    /\ UNCHANGED <<arguments, influx, connections>>
    /\ UNCHANGED <<query_vars, client_vars, dotenv_vars, more_vars>>

NextAuth ==
    \/ \E h \in EdgeHeaders \ {NoHeaders} : tool_request(h)
    \/ get_litmus_connection
    \/ tool_done

SpecAuth == Init /\ [][NextAuth]_vars

-----------------------------------------------------------------------------
(* C18 *)

\* the first of the three headers that is missing or empty, None if none is
FirstMissing ==
    IF headers["EDGE_URL"] \in {None, ""} THEN "EDGE_URL"
    ELSE IF headers["EDGE_API_CLIENT_ID"] \in {None, ""} THEN "EDGE_API_CLIENT_ID"
    ELSE IF headers["EDGE_API_CLIENT_SECRET"] \in {None, ""}
    THEN "EDGE_API_CLIENT_SECRET"
    ELSE None

-----------------------------------------------------------------------------
(* env_config._get_env_vars *)

MaxLines == 2

\* the lines a .env file is made of, each a sequence of tokens: assignments,
\* a repeated key, a second '=', spaces around, a comment with and without
\* '=', a bare word and an empty line. None of the keys is a key of environ,
\* so load_dotenv leaves environ as it is.
Lines ==
    { <<"K", "=", "v">>, <<"K", "=", "w">>, <<"J", "=", "v", "=", "w">>,
      <<" ", "J", "=", "v", " ">>, <<"#", "K", "=", "v">>, <<"#", "c">>,
      <<"K">>, <<>> }

File(lines) == [exists |-> TRUE, lines |-> lines]

\* the files that may be on disk
Contents == {NoFile} \cup {File(ls) : ls \in UNION {[1..n -> Lines] : n \in 0..MaxLines}}

\* f.write("ENV=Initiate")
Initiate == File(<< <<"ENV", "=", "Initiate">> >>)

\* "=" in line
HasEquals(line) == \E k \in 1..Len(line) : line[k] = "="

\* line.strip()
Strip(line) ==
    LET ks == {k \in 1..Len(line) : line[k] # " "}
    IN  IF ks = {} THEN <<>>
        ELSE SubSeq(line, CHOOSE k \in ks : \A m \in ks : k <= m,
                          CHOOSE k \in ks : \A m \in ks : k >= m)

\* s.split("=", 1)
SplitFirst(s) ==
    LET k == CHOOSE n \in 1..Len(s) : s[n] = "=" /\ \A m \in 1..(n - 1) : s[m] # "="
    IN  <<SubSeq(s, 1, k - 1), SubSeq(s, k + 1, Len(s))>>

\* env_vars[k] = v
SetItem(d, k, v) == [x \in DOMAIN d \cup {k} |-> IF x = k THEN v ELSE d[x]]

\* for line in file: if "=" in line: k, v = ...; env_vars[k] = v
RECURSIVE ReadLines(_, _)
ReadLines(lines, env_vars) ==
    IF lines = <<>> THEN env_vars
    ELSE LET line == Head(lines)
         IN  ReadLines(Tail(lines),
                 IF HasEquals(line)
                 THEN SetItem(env_vars, SplitFirst(Strip(line))[1],
                                        SplitFirst(Strip(line))[2])
                 ELSE env_vars)

\* path_to_env == "": the test misses None
IsEmptyString(path_to_env) == path_to_env = ""

\* not path_to_env
NotPath(path_to_env) == path_to_env \in {"", None}

\* what dotenv.find_dotenv may return: nothing, or the path of a file
find_dotenv(disk) == {"", None} \cup {p \in Paths : disk[p].exists}

\* the end of the function, from os.path.exists(path_to_env) on
ReadBack(disk, path_to_env) ==
    IF path_to_env = None
    THEN [kind |-> "TypeError", env_vars |-> <<>>, path |-> None]
    ELSE IF path_to_env \in Paths /\ disk[path_to_env].exists
    THEN [kind |-> "returned",
          env_vars |-> ReadLines(disk[path_to_env].lines, <<>>),
          path |-> path_to_env]
    ELSE [kind |-> "returned", env_vars |-> <<>>, path |-> path_to_env]

\* the whole function, for the two results of find_dotenv
_get_env_vars(first, second) ==
    /\ returned = NotReturned
    /\ first \in find_dotenv(files)
    /\ IF NotPath(first)
       THEN /\ files' = [files EXCEPT ![CwdEnv] = Initiate]
            /\ second \in find_dotenv(files')
            /\ lookups' = <<first, second>>
            /\ returned' = ReadBack(files', second)
       ELSE /\ second = first
            /\ lookups' = <<first>>
            /\ returned' = ReadBack(files, first)
            /\ UNCHANGED files
    /\ UNCHANGED <<query_vars, client_vars, server_vars, more_vars>>

\* the files on disk before the call
InitDotenv ==
    /\ QueriesIdle /\ ClientIdle /\ ServerIdle /\ MoreIdle
    /\ files \in [Paths -> Contents]
    /\ files[CwdEnv] \in {NoFile, File(<< <<"K", "=", "v">> >>)}
    /\ lookups = <<>>
    /\ returned = NotReturned

NextDotenv ==
    \E first \in {"", None} \cup Paths, second \in {"", None} \cup Paths :
        _get_env_vars(first, second)

SpecDotenv == InitDotenv /\ [][NextDotenv]_vars

-----------------------------------------------------------------------------
(* C19 *)

\* the dict holds exactly the key=value lines: its keys are the keys of the
\* lines with '=', each with the value of the last such line
HoldsAssignments(env_vars, lines) ==
    LET withEq == {n \in 1..Len(lines) : \E k \in 1..Len(lines[n]) : lines[n][k] = "="}
        KeyOf(n) == SplitFirst(Strip(lines[n]))[1]
        ValueOf(n) == SplitFirst(Strip(lines[n]))[2]
    IN  /\ DOMAIN env_vars = {KeyOf(n) : n \in withEq}
        /\ \A n \in withEq :
              (\A m \in withEq : m > n => KeyOf(m) # KeyOf(n)) =>
                  env_vars[KeyOf(n)] = ValueOf(n)

-----------------------------------------------------------------------------
(* C21 *)

\* C21 as stated: every follow-up provider call of a query is made with the
\* tool list and the system instruction of the call before it, so all calls
\* of a query have those of the first call; only the message list differs.
C21_SameToolsAndSystem ==
    [][ calls >= 1 /\ calls' = calls + 1 =>
           /\ request'.tools = request.tools
           /\ request'.system = request.system ]_vars

-----------------------------------------------------------------------------
(* C22 *)

\* the turn asks for tool calls: it holds at least one, and reports the stop
\* reason tool_use where the provider reports stop reasons
AsksForTools(p, turn) ==
    /\ SelectSeq(turn.content, IsToolUse) # <<>>
    /\ p = "gemini" \/ turn.stop_reason = "tool_use"

\* C22: the loops have no turn limit. After n consecutive turns that ask for
\* tool calls, with every tool call answered, all n batches have been
\* executed and the (n+1)-th provider call is issued next; a query returns
\* only on a turn that asks for no tool call, and never with
\* TurnLimitExceeded, so a provider that asks for a tool in every turn is
\* called again and again.
C22_NoTurnLimit ==
    /\ ( /\ path \in {"anthropic", "stream", "gemini"}
         /\ pc = "create"
         /\ calls >= 1 ) =>
            /\ Len(script) = calls
            /\ \A n \in 1..calls :
                  \/ AsksForTools(path, script[n])
                  \/ path = "stream" /\ script[n].stop_reason = "tool_use"
            /\ Len(messages) = Base + 2 * calls
            /\ \A n \in 1..calls :
                  Len(messages[Base + 2 * n].blocks)
                      = Len(SelectSeq(script[n].content, IsToolUse))
            /\ calls < MaxTurns /\ stub = <<>> => ENABLED (create \/ stream_open)
    /\ outcome.kind \in {"returned", "done"} /\ outcome.path # "openai" =>
          /\ outcome.script # <<>>
          /\ ~AsksForTools(outcome.path, outcome.script[Len(outcome.script)])
    /\ outcome.kind # "TurnLimitExceeded"
    /\ outcome.kind = "raised" => outcome.value # <<"TurnLimitExceeded">>

\* the provider was called a third time after two turns that asked for
\* tools, and asked again
C22_Witness ==
    /\ path = "stream"
    /\ pc = "create"
    /\ calls = MaxTurns
    /\ \A n \in 1..MaxTurns : AsksForTools(path, script[n])

-----------------------------------------------------------------------------
(* conversation.py: the store of all sessions *)

MaxUpdates == 7

\* the n-th pair handed to update_conversation_history
PairOf(n) == <<StrMsg("user", <<"q", n>>), StrMsg("assistant", <<"a", n>>)>>

\* _SESSIONS.get(session_id, [])
StoredHistory(store, id) == IF id \in DOMAIN store THEN store[id] ELSE <<>>

\* _SESSIONS[session_id] = value
StoreItem(store, id, value) ==
    [x \in DOMAIN store \cup {id} |-> IF x = id THEN value ELSE store[x]]

\* update_conversation_history(session_id, query, response)
update_session(id) ==
    /\ updates < MaxUpdates
    /\ updates' = updates + 1
    /\ _SESSIONS' = StoreItem(_SESSIONS, id,
          update_conversation_history(StoredHistory(_SESSIONS, id),
              <<"q", updates'>>, <<"a", updates'>>))
    /\ appended' = [appended EXCEPT ![id] = @ \o PairOf(updates')]
    /\ UNCHANGED <<query_vars, client_vars, server_vars, dotenv_vars, chat_vars,
                 late_vars>>

\* update_conversation_history(session_id, None, None, clear=True):
\* _SESSIONS.pop(session_id, None)
clear_session(id) ==
    /\ _SESSIONS' = [x \in DOMAIN _SESSIONS \ {id} |-> _SESSIONS[x]]
    /\ appended' = [appended EXCEPT ![id] = <<>>]
    /\ appended' # appended
    /\ UNCHANGED updates
    /\ UNCHANGED <<query_vars, client_vars, server_vars, dotenv_vars, chat_vars,
                 late_vars>>

NextSessions ==
    \/ \E id \in SessionIds : update_session(id)
    \/ \E id \in SessionIds : clear_session(id)

SpecSessions == Init /\ [][NextSessions]_vars

-----------------------------------------------------------------------------
(* C23 *)

\* the last n elements of a sequence, all of it when it is shorter
LastOf(seq, n) ==
    IF Len(seq) <= n THEN seq ELSE SubSeq(seq, Len(seq) - n + 1, Len(seq))

\* C23: after any sequence of updates and clears on any sessions, every
\* stored history has even length of at most 10, alternates user and
\* assistant entries, and is made of the pairs appended last to that
\* session, in append order; an update or a clear of one session leaves the
\* history of every other session as it was.
C23_BoundedAlternatingRecent ==
    /\ [](\A id \in SessionIds :
            LET h == StoredHistory(_SESSIONS, id)
            IN  /\ Len(h) % 2 = 0
                /\ Len(h) <= 10
                /\ \A k \in 1..Len(h) :
                      h[k].role = IF k % 2 = 1 THEN "user" ELSE "assistant"
                /\ h = LastOf(appended[id], 10))
    /\ [][ \A id \in SessionIds :
              appended'[id] = appended[id] =>
                  StoredHistory(_SESSIONS', id) = StoredHistory(_SESSIONS, id) ]_vars

\* one session went beyond five pairs and was cut, the other holds one pair
C23_Witness ==
    /\ Len(appended["s1"]) = 12
    /\ Len(StoredHistory(_SESSIONS, "s1")) = 10
    /\ StoredHistory(_SESSIONS, "s1")[1] = appended["s1"][3]
    /\ Len(StoredHistory(_SESSIONS, "s2")) = 2

-----------------------------------------------------------------------------
(* C24 *)

\* a /chat request is being answered by one of the three generators
InChat == path \in {"stream", "gemini", "openai"}

\* C24: a /chat request whose stream was started stores exactly one
\* user/assistant pair for its query, when the stream ends and not before,
\* whether it ends normally, with an error of the provider or of a tool, or
\* because the client went away; the pair holds the query and what was
\* streamed. A request answered with 401 or 400 stores nothing.
C24_OnePairAtStreamEnd ==
    [][ /\ InChat /\ path' = path => sessions' = sessions
        /\ InChat /\ path' = "none" =>
              /\ outcome'.kind \in {"done", "error", "abandoned"}
              /\ sessions' = LastOf(sessions \o <<StrMsg("user", Query),
                                 StrMsg("assistant", full_response')>>, 10)
              /\ Len(sessions') = Len(sessions) + 2
        /\ outcome'.kind = "rejected" /\ outcome.kind # "rejected" =>
              /\ path = "none" /\ path' = "none"
              /\ sessions' = sessions ]_vars

\* the client went away after a tool marker was streamed, and the pair was
\* stored with the text streamed so far
C24_Witness ==
    /\ outcome.kind = "abandoned"
    /\ outcome.path = "stream"
    /\ Len(sessions) = 4
    /\ sessions[4].role = "assistant"
    /\ sessions[4].text = full_response
    /\ Len(full_response) >= 2

-----------------------------------------------------------------------------
(* web_client.py: /chat and /clear-history requests on the session store *)

MaxQueries == 2

\* what the web requests leave alone
not_chat == <<query_vars, client_vars, server_vars, dotenv_vars, late_vars>>

\* POST /chat up to the StreamingResponse: the history of the session is
\* copied and the generator starts
chat_starts(r, id) ==
    /\ chats[r].pc = "idle"
    /\ submitted < MaxQueries
    /\ submitted' = submitted + 1
    /\ chats' = [chats EXCEPT ![r] =
          [pc |-> "streaming", session_id |-> id, query |-> submitted',
           full_response |-> <<>>,
           conversation_history |-> StoredHistory(_SESSIONS, id)]]
    /\ UNCHANGED <<cleared, session_vars, not_chat>>

\* full_response += chunk; yield chunk
chat_chunk(r) ==
    /\ chats[r].pc = "streaming"
    /\ chats[r].full_response = <<>>
    /\ chats' = [chats EXCEPT ![r].full_response = <<"chunk">>]
    /\ UNCHANGED <<submitted, cleared, session_vars, not_chat>>

\* except Exception as e: full_response += error_msg; yield error_msg
chat_error(r) ==
    /\ chats[r].pc = "streaming"
    /\ chats' = [chats EXCEPT ![r].full_response = @ \o ErrorMsg("Unavailable"),
                              ![r].pc = "error_sent"]
    /\ UNCHANGED <<submitted, cleared, session_vars, not_chat>>

\* finally: update_conversation_history(session_id, query, full_response),
\* when the generator is exhausted or closed
chat_ends(r) ==
    /\ chats[r].pc \in {"streaming", "error_sent"}
    /\ LET id == chats[r].session_id
       IN  /\ _SESSIONS' = StoreItem(_SESSIONS, id,
                 update_conversation_history(StoredHistory(_SESSIONS, id),
                     <<"q", chats[r].query>>, chats[r].full_response))
           /\ appended' = [appended EXCEPT ![id] = @ \o
                 <<StrMsg("user", <<"q", chats[r].query>>),
                   StrMsg("assistant", chats[r].full_response)>>]
    /\ updates' = updates + 1
    /\ chats' = [chats EXCEPT ![r] = NoChat]
    /\ UNCHANGED <<submitted, cleared, not_chat>>

\* POST /clear-history: update_conversation_history(session_id, None, None,
\* clear=True)
clear_history_request(id) ==
    /\ _SESSIONS' = [x \in DOMAIN _SESSIONS \ {id} |-> _SESSIONS[x]]
    /\ appended' = [appended EXCEPT ![id] = <<>>]
    /\ cleared' = [cleared EXCEPT ![id] = submitted]
    /\ cleared' # cleared \/ _SESSIONS' # _SESSIONS
    /\ UNCHANGED <<chats, submitted, updates, not_chat>>

NextChat ==
    \/ \E r \in Requests, id \in SessionIds : chat_starts(r, id)
    \/ \E r \in Requests : chat_chunk(r)
    \/ \E r \in Requests : chat_error(r)
    \/ \E r \in Requests : chat_ends(r)
    \/ \E id \in SessionIds : clear_history_request(id)

SpecChat == Init /\ [][NextChat]_vars

-----------------------------------------------------------------------------
(* C25 *)

\* C25 as stated: once a clear-history request of a session has completed,
\* the history of that session holds no pair whose query was submitted before
\* the clear, also when a response was still being streamed at that time.
C25_NoPairFromBeforeClear ==
    \A id \in SessionIds :
        \A k \in 1..Len(StoredHistory(_SESSIONS, id)) :
            StoredHistory(_SESSIONS, id)[k].role = "user" =>
                StoredHistory(_SESSIONS, id)[k].text[2] > cleared[id]


-----------------------------------------------------------------------------
(* The provider preference: env_config.check_model_key and the routes
   /api/switch-model, /switch-model and /chat of web_client.py *)

MODEL_NAME_OPENAI == "openai"
MODEL_NAME_ANTHROPIC == "anthropic"
\* imported by web_client.py from env_config, which does not define it; the
\* value is the provider string the switch routes map to it
MODEL_NAME_GEMINI == "gemini"
MODEL_PREFERENCE == "PREFERRED_MODEL"

\* the provider field of the form of a switch request
Providers == {"anthropic", "gemini", "openai", "mistral"}

\* the bound on the /chat requests followed after one switch
MaxChats == 3

\* dotenv.load_dotenv(path, override=True): every line of the file replaces
\* the variable of the process, a variable without a line is kept
load_dotenv(file, env) ==
    IF file.PREFERRED_MODEL = None THEN env
    ELSE [env EXCEPT !.PREFERRED_MODEL = file.PREFERRED_MODEL]

\* mcp_env_updater(key, value): _get_env_vars loads the file into the process
\* with override=True, then the file is written again with the key set
FileAfterUpdate(file, value) == [file EXCEPT !.PREFERRED_MODEL = value]

\* the preferences a switch request can store
Preferences == {MODEL_NAME_OPENAI, MODEL_NAME_ANTHROPIC, MODEL_NAME_GEMINI}

Accepted == {MODEL_NAME_OPENAI, MODEL_NAME_ANTHROPIC}

\* check_model_key(): <<key_exists, model_type, the preference written or None>>
check_model_key(env) ==
    LET anthropic_exists == env.ANTHROPIC_API_KEY
        openai_exists == env.OPENAI_API_KEY
        preferred_model == env.PREFERRED_MODEL
    IN  IF preferred_model # None /\ preferred_model \in Accepted
        THEN <<TRUE, preferred_model, None>>
        ELSE IF anthropic_exists = None /\ openai_exists = None
        THEN <<FALSE, "", None>>
        ELSE IF openai_exists # None
        THEN <<TRUE, MODEL_NAME_OPENAI, MODEL_NAME_OPENAI>>
        ELSE <<TRUE, MODEL_NAME_ANTHROPIC, MODEL_NAME_ANTHROPIC>>

\* the branch of chat_post that answers: 401 without a key, else the
\* generator of the model type
ChatPath(checked) ==
    IF ~checked[1] THEN "401"
    ELSE IF checked[2] = MODEL_NAME_ANTHROPIC THEN "anthropic_stream"
    ELSE IF checked[2] = MODEL_NAME_GEMINI THEN "gemini_stream"
    ELSE "openai_stream"

\* the generator that answers for a stored preference
PathOf(preference) ==
    IF preference = MODEL_NAME_ANTHROPIC THEN "anthropic_stream"
    ELSE IF preference = MODEL_NAME_GEMINI THEN "gemini_stream"
    ELSE "openai_stream"

not_model == <<query_vars, client_vars, server_vars, dotenv_vars,
               session_vars, chat_vars, device_vars, edge_vars, nats_vars>>

\* POST /api/switch-model and POST /switch-model
api_switch_model(provider) ==
    LET preference == IF provider = "anthropic" THEN MODEL_NAME_ANTHROPIC
                      ELSE IF provider = "gemini" THEN MODEL_NAME_GEMINI
                      ELSE MODEL_NAME_OPENAI
        file == FileAfterUpdate(env_file, preference)
    IN  /\ env_file' = file
        /\ os_environ' = load_dotenv(file, load_dotenv(env_file, os_environ))
        /\ switched' = preference
        /\ dispatched' = <<>>
        /\ UNCHANGED not_model

\* POST /chat up to the choice of the generator: mcp_env_loader(), then
\* check_model_key(), then the branch on model_type
chat_post_dispatch ==
    /\ Len(dispatched) < MaxChats
    /\ LET env == load_dotenv(env_file, os_environ)
           checked == check_model_key(env)
       IN  /\ os_environ' = env
           /\ env_file' = IF checked[3] = None THEN env_file
                          ELSE FileAfterUpdate(env_file, checked[3])
           /\ dispatched' = Append(dispatched, ChatPath(checked))
    /\ UNCHANGED <<switched, not_model>>

\* POST /setup-key with one key: mcp_env_updater(key, value) and
\* mcp_env_loader(), after which the process holds the key
setup_key(key) ==
    /\ os_environ[key] = None
    /\ os_environ' = [load_dotenv(env_file, os_environ) EXCEPT ![key] = "k1"]
    /\ UNCHANGED <<env_file, switched, dispatched, not_model>>

\* the process starts with any of the API keys set and any stored preference;
\* web_client.py calls mcp_env_loader() when it is imported
InitModel ==
    /\ QueriesIdle /\ ClientIdle /\ ServerIdle /\ DotenvIdle
    /\ SessionsIdle /\ ChatsIdle /\ DevicesIdle /\ EdgesIdle /\ NatsIdle
    /\ env_file \in [PREFERRED_MODEL : {None} \cup Preferences]
    /\ \E a \in {None, "k1"}, o \in {None, "k1"} :
          os_environ = [PREFERRED_MODEL |-> env_file.PREFERRED_MODEL,
                        ANTHROPIC_API_KEY |-> a, OPENAI_API_KEY |-> o]
    /\ switched = None
    /\ dispatched = <<>>

NextModel ==
    \/ \E provider \in Providers : api_switch_model(provider)
    \/ chat_post_dispatch
    \/ \E key \in {"ANTHROPIC_API_KEY", "OPENAI_API_KEY"} : setup_key(key)

SpecModel == InitModel /\ [][NextModel]_vars

-----------------------------------------------------------------------------
(* C26 *)

\* C26 as stated: after a switch request stored the preference P, one of
\* anthropic, openai and gemini, every /chat request that follows is answered
\* by the query path of P, and the stored preference is still P.
C26_ChatFollowsSwitch ==
    switched # None =>
        /\ env_file.PREFERRED_MODEL = switched
        /\ \A k \in 1..Len(dispatched) : dispatched[k] = PathOf(switched)


-----------------------------------------------------------------------------
(* The device list cache of tools/devicehub_tools.py *)

_DEVICE_LIST_TTL == 10

\* the bound on the seconds of the clock that are followed
MaxClock == 12

\* cache_key = request.headers.get("EDGE_URL") or ""
CacheKey(url) == url

\* if cached and now - cached[1] < _DEVICE_LIST_TTL
IsFresh(cached, now) == cached # NoList /\ now - cached.at < _DEVICE_LIST_TTL

\* the list _find_device_by_name searches for a request with the given
\* EDGE_URL header, whose connection was made with the given credentials
ListSearched(cache, url, by, now) ==
    IF CacheKey(url) # "" /\ IsFresh(cache[CacheKey(url)], now)
    THEN cache[CacheKey(url)]
    ELSE DeviceList(url, by, now)

not_devices == <<query_vars, client_vars, server_vars, dotenv_vars,
                 session_vars, chat_vars, model_vars, edge_vars, nats_vars>>

\* a device tool calls _find_device_by_name(connection, device_name, request)
\* with connection = get_litmus_connection(request)
_find_device_by_name(url, by) ==
    /\ lookup = NoLookup
    /\ LET now == monotonic
           device_list == ListSearched(_device_list_cache, url, by, now)
       IN  /\ lookup' = [url |-> url, by |-> by, device_list |-> device_list]
           /\ _device_list_cache' =
                 IF CacheKey(url) # "" /\ ~IsFresh(_device_list_cache[CacheKey(url)], now)
                 THEN [_device_list_cache EXCEPT ![CacheKey(url)] = device_list]
                 ELSE _device_list_cache
    /\ UNCHANGED <<monotonic, not_devices>>

\* the tool returns its result for the device found
device_tool_returns ==
    /\ lookup # NoLookup
    /\ lookup' = NoLookup
    /\ UNCHANGED <<_device_list_cache, monotonic, not_devices>>

\* a second passes between two requests
second_passes ==
    /\ lookup = NoLookup
    /\ monotonic < MaxClock
    /\ monotonic' = monotonic + 1
    /\ UNCHANGED <<_device_list_cache, lookup, not_devices>>

NextDevices ==
    \/ \E url \in EdgeUrls, by \in Credentials : _find_device_by_name(url, by)
    \/ device_tool_returns
    \/ second_passes

SpecDevices == Init /\ [][NextDevices]_vars

-----------------------------------------------------------------------------
(* C27 *)

\* C27 as stated: the device list searched for a request was fetched for the
\* EDGE_URL of the request with the credentials of the request, and either
\* during the call or less than _DEVICE_LIST_TTL seconds before it.
C27_ListOfOwnCredentials ==
    lookup # NoLookup =>
        /\ lookup.device_list.url = lookup.url
        /\ lookup.device_list.by = lookup.by
        /\ monotonic - lookup.device_list.at < _DEVICE_LIST_TTL


-----------------------------------------------------------------------------
(* The Edge instances: env_config.py and the instance routes of
   web_client.py *)

\* str(index), and int(...) of the stored string
IndexStr(n) == IF n = 0 THEN "0" ELSE <<"1", "2", "3", "4", "5">>[n]

IndexInt(str) == CHOOSE n \in 0..5 : IndexStr(n) = str

\* f"Edge {idx}"
EdgeName(n) == <<"Edge 1", "Edge 2", "Edge 3", "Edge 4", "Edge 5">>[n]

\* os.environ.get(name, ""): the value, "" without the variable
GetOrEmpty(value) == IF value = None THEN "" ELSE value

\* the Edges an instance can be added for: url, client_id, client_secret
Edges ==
    { [url |-> "https://a", client_id |-> "idA", client_secret |-> "secA"],
      [url |-> "https://b", client_id |-> "idB", client_secret |-> "secB"] }

\* what _fetch_name returns: "" when the Edge reports no name
FetchedNames == {"", "plant"}

\* dotenv.load_dotenv(dotenv_path, override=True): a variable with a line in
\* the file takes the value of the line, a variable without a line is kept
LoadEdges(file, env) ==
    [EDGE_URL |-> IF file.EDGE_URL = None THEN env.EDGE_URL ELSE file.EDGE_URL,
     EDGE_API_CLIENT_ID |->
         IF file.EDGE_API_CLIENT_ID = None THEN env.EDGE_API_CLIENT_ID
         ELSE file.EDGE_API_CLIENT_ID,
     EDGE_API_CLIENT_SECRET |->
         IF file.EDGE_API_CLIENT_SECRET = None THEN env.EDGE_API_CLIENT_SECRET
         ELSE file.EDGE_API_CLIENT_SECRET,
     ACTIVE_EDGE_INSTANCE |->
         IF file.ACTIVE_EDGE_INSTANCE = None THEN env.ACTIVE_EDGE_INSTANCE
         ELSE file.ACTIVE_EDGE_INSTANCE,
     EDGE_INSTANCE |->
         [idx \in Indices |-> [suffix \in Suffixes |->
             IF file.EDGE_INSTANCE[idx][suffix] = None
             THEN env.EDGE_INSTANCE[idx][suffix]
             ELSE file.EDGE_INSTANCE[idx][suffix]]]]

\* the pair <<file, environment>> the process works on
Both(file, env) == [file |-> file, env |-> env]

\* mcp_env_loader()
mcp_env_loader(s) == Both(s.file, LoadEdges(s.file, s.env))

\* remove_edge_instance(index): mcp_env_remover for each of the four keys;
\* each call loads the file into the process and writes the file again
\* without the key
remove_edge_instance(s, index) ==
    Both(IF index \in Indices
         THEN [s.file EXCEPT !.EDGE_INSTANCE[index] = NoInstance]
         ELSE s.file,
         LoadEdges(s.file, s.env))

\* get_edge_instances(): the indices with a non-empty URL in os.environ
get_edge_instances(env) ==
    { idx \in Indices : GetOrEmpty(env.EDGE_INSTANCE[idx].URL) # "" }

\* next_edge_instance_index(): the lowest index without a URL in os.environ
next_edge_instance_index(env) ==
    IF get_edge_instances(env) = Indices THEN MaxIndex + 1
    ELSE CHOOSE idx \in Indices :
            /\ idx \notin get_edge_instances(env)
            /\ \A j \in 1..(idx - 1) : j \in get_edge_instances(env)

\* instances[0]["index"]
FirstInstance(env) ==
    CHOOSE idx \in get_edge_instances(env) :
        \A j \in get_edge_instances(env) : idx <= j

\* activate_edge_instance(index): four mcp_env_updater calls with the values
\* read from os.environ, then mcp_env_loader()
activate_edge_instance(s, index) ==
    LET inst == IF index \in Indices THEN s.env.EDGE_INSTANCE[index]
                ELSE NoInstance
        file == [s.file EXCEPT
                    !.EDGE_URL = GetOrEmpty(inst.URL),
                    !.EDGE_API_CLIENT_ID = GetOrEmpty(inst.CLIENT_ID),
                    !.EDGE_API_CLIENT_SECRET = GetOrEmpty(inst.SECRET),
                    !.ACTIVE_EDGE_INSTANCE = IndexStr(index)]
    IN  mcp_env_loader(Both(file, LoadEdges(s.file, s.env)))

\* active = int(os.environ.get(ACTIVE_EDGE_INSTANCE, 0))
ActiveOf(env) ==
    IF env.ACTIVE_EDGE_INSTANCE = None THEN 0
    ELSE IndexInt(env.ACTIVE_EDGE_INSTANCE)

not_edges == <<query_vars, client_vars, server_vars, dotenv_vars,
               session_vars, chat_vars, model_vars, device_vars, nats_vars>>

\* POST /api/add-edge-instance, when the connection to the Edge succeeds
api_add_edge_instance(edge, fetched) ==
    LET s0 == mcp_env_loader(Both(edge_file, edge_environ))
        idx == next_edge_instance_index(s0.env)
        name == IF fetched = "" THEN EdgeName(idx) ELSE fetched
        s1 == mcp_env_loader(Both(
                 [s0.file EXCEPT !.EDGE_INSTANCE[idx] =
                     [URL |-> edge.url, CLIENT_ID |-> edge.client_id,
                      SECRET |-> edge.client_secret, NAME |-> name]],
                 s0.env))
        s2 == IF ActiveOf(s1.env) = 0
              THEN mcp_env_loader(activate_edge_instance(s1, idx))
              ELSE s1
    IN  /\ idx \in Indices
        /\ edge_file' = s2.file
        /\ edge_environ' = s2.env
        /\ edge_request' = [route |-> "add", index |-> idx]
        /\ UNCHANGED not_edges

\* POST /api/remove-edge-instance
api_remove_edge_instance(index) ==
    LET s0 == mcp_env_loader(Both(edge_file, edge_environ))
        active == ActiveOf(s0.env)
        s1 == mcp_env_loader(remove_edge_instance(s0, index))
        instances == get_edge_instances(s1.env)
        s2 == IF active = index
              THEN IF instances # {}
                   THEN mcp_env_loader(
                            activate_edge_instance(s1, FirstInstance(s1.env)))
                   ELSE Both([s1.file EXCEPT !.ACTIVE_EDGE_INSTANCE = "0"],
                             LoadEdges(s1.file, s1.env))
              ELSE s1
    IN  /\ edge_file' = s2.file
        /\ edge_environ' = s2.env
        /\ edge_request' = [route |-> "remove", index |-> index]
        /\ UNCHANGED not_edges

\* POST /api/switch-edge-instance
api_switch_edge_instance(index) ==
    LET s0 == mcp_env_loader(Both(edge_file, edge_environ))
        s1 == mcp_env_loader(activate_edge_instance(s0, index))
    IN  /\ edge_file' = s1.file
        /\ edge_environ' = s1.env
        /\ edge_request' = [route |-> "switch", index |-> index]
        /\ UNCHANGED not_edges

NextEdges ==
    \/ \E edge \in Edges, fetched \in FetchedNames :
          api_add_edge_instance(edge, fetched)
    \/ \E index \in Indices : api_remove_edge_instance(index)
    \/ \E index \in Indices : api_switch_edge_instance(index)

SpecEdges == Init /\ [][NextEdges]_vars

-----------------------------------------------------------------------------
(* C28 *)

\* C28 as stated: when api_remove_edge_instance(i) has returned, i is not
\* among get_edge_instances(), next_edge_instance_index() takes i for unused,
\* and none of the four EDGE_INSTANCE_i_* keys is left in the .env file or in
\* the environment of the process.
C28_RemovedInstanceIsGone ==
    edge_request.route = "remove" =>
        /\ edge_request.index \notin get_edge_instances(edge_environ)
        /\ next_edge_instance_index(edge_environ) <= edge_request.index
        /\ edge_file.EDGE_INSTANCE[edge_request.index] = NoInstance
        /\ edge_environ.EDGE_INSTANCE[edge_request.index] = NoInstance

-----------------------------------------------------------------------------
(* C29 *)

\* C29 as stated: after any sequence of add, remove and switch requests,
\* ACTIVE_EDGE_INSTANCE is 0 or the index of an instance that
\* get_edge_instances() returns, and when it is not 0 the main EDGE_URL,
\* EDGE_API_CLIENT_ID and EDGE_API_CLIENT_SECRET are those of that instance.
C29_ActiveIsAnInstance ==
    LET active == ActiveOf(edge_environ)
    IN  active # 0 =>
           /\ active \in get_edge_instances(edge_environ)
           /\ edge_environ.EDGE_URL = edge_environ.EDGE_INSTANCE[active].URL
           /\ edge_environ.EDGE_API_CLIENT_ID =
                 edge_environ.EDGE_INSTANCE[active].CLIENT_ID
           /\ edge_environ.EDGE_API_CLIENT_SECRET =
                 edge_environ.EDGE_INSTANCE[active].SECRET


-----------------------------------------------------------------------------
(* The NATS readers of tools/data_tools.py: _nc_single_topic and
   _collect_multiple_values_from_topic *)

\* the bound on the reader calls followed
MaxCalls == 2

Readers == {"_nc_single_topic", "_collect_multiple_values_from_topic"}

\* the num_samples a call can carry; the tool caps it at 100 and has no
\* lower limit
NumSamples == {-1, 0, 1, 2}

not_nats == <<query_vars, client_vars, server_vars, dotenv_vars,
              session_vars, chat_vars, model_vars, device_vars, edge_vars>>

\* the reader is called
nats_reader_called(fn, n) ==
    /\ nats_call.pc \in {"idle", "returned", "raised"}
    /\ nats_calls < MaxCalls
    /\ fn = "_nc_single_topic" => n = 1
    /\ nats_call' = [NoNatsCall EXCEPT !.fn = fn, !.pc = "connect",
                                        !.num_samples = n]
    /\ nats_calls' = nats_calls + 1
    /\ UNCHANGED <<nats_open, not_nats>>

\* nc = await nats.connect(**connect_options), which returns a connection
\* or raises
nats_connect(ok) ==
    /\ nats_call.pc = "connect"
    /\ IF ok
       THEN /\ nats_call' = [nats_call EXCEPT !.pc = "locals", !.nc = "open"]
            /\ nats_open' = nats_open + 1
       ELSE /\ nats_call' = [nats_call EXCEPT !.pc = "raised",
                                               !.raising = "ConnectError"]
            /\ UNCHANGED nats_open
    /\ UNCHANGED <<nats_calls, not_nats>>

\* zeros(num_samples) raises ValueError for a negative dimension
ZerosRaises(n) == n < 0

\* the statements between connect and try: result_message = {} in
\* _nc_single_topic; results = {..., "values": zeros(num_samples)} and
\* counter = 0 in _collect_multiple_values_from_topic
nats_locals ==
    /\ nats_call.pc = "locals"
    /\ IF /\ nats_call.fn = "_collect_multiple_values_from_topic"
          /\ ZerosRaises(nats_call.num_samples)
       THEN nats_call' = [nats_call EXCEPT !.pc = "raised",
                                            !.raising = "ValueError"]
       ELSE nats_call' = [nats_call EXCEPT !.pc = "subscribe"]
    /\ UNCHANGED <<nats_open, nats_calls, not_nats>>

\* try: await nc.subscribe(topic, cb=message_handler)
nats_subscribe(ok) ==
    /\ nats_call.pc = "subscribe"
    /\ nats_call' = IF ok THEN [nats_call EXCEPT !.pc = "waiting"]
                    ELSE [nats_call EXCEPT !.pc = "finally",
                                           !.raising = "SubscribeError"]
    /\ UNCHANGED <<nats_open, nats_calls, not_nats>>

\* message_handler(msg) for a message that carries a value
message_handler ==
    /\ nats_call.pc = "waiting"
    /\ ~nats_call.stop_event
    /\ nats_call' =
          IF nats_call.fn = "_nc_single_topic"
          THEN [nats_call EXCEPT !.counter = 1, !.stop_event = TRUE]
          ELSE IF nats_call.counter < nats_call.num_samples
          THEN [nats_call EXCEPT
                   !.counter = @ + 1,
                   !.stop_event = (nats_call.counter + 1 >= nats_call.num_samples)]
          ELSE [nats_call EXCEPT !.stop_event = TRUE]
    /\ UNCHANGED <<nats_open, nats_calls, not_nats>>

\* await asyncio.wait_for(stop_event.wait(), timeout=NATS_TIMEOUT) returns
wait_returns ==
    /\ nats_call.pc = "waiting"
    /\ nats_call.stop_event
    /\ nats_call' = [nats_call EXCEPT !.pc = "finally"]
    /\ UNCHANGED <<nats_open, nats_calls, not_nats>>

\* except asyncio.TimeoutError: raise McpError(...)
wait_times_out ==
    /\ nats_call.pc = "waiting"
    /\ ~nats_call.stop_event
    /\ nats_call' = [nats_call EXCEPT !.pc = "finally", !.raising = "McpError"]
    /\ UNCHANGED <<nats_open, nats_calls, not_nats>>

\* finally: try: await nc.drain() / except Exception: await nc.close()
nats_finally(drains) ==
    /\ nats_call.pc = "finally"
    /\ nats_call' = [nats_call EXCEPT
                        !.nc = IF drains THEN "drained" ELSE "closed",
                        !.pc = IF nats_call.raising = "none" THEN "returned"
                               ELSE "raised"]
    /\ nats_open' = nats_open - 1
    /\ UNCHANGED <<nats_calls, not_nats>>

NextNats ==
    \/ \E fn \in Readers, n \in NumSamples : nats_reader_called(fn, n)
    \/ \E ok \in BOOLEAN : nats_connect(ok)
    \/ nats_locals
    \/ \E ok \in BOOLEAN : nats_subscribe(ok)
    \/ message_handler
    \/ wait_returns
    \/ wait_times_out
    \/ \E drains \in BOOLEAN : nats_finally(drains)

SpecNats == Init /\ [][NextNats]_vars

-----------------------------------------------------------------------------
(* C30 *)

\* C30 as stated: when _nc_single_topic or _collect_multiple_values_from_topic
\* has returned or raised, the connection it opened is drained or closed, and
\* the process holds no open connection of a finished call.
C30_NoConnectionLeftOpen ==
    nats_call.pc \in {"idle", "returned", "raised"} =>
        /\ nats_call.nc # "open"
        /\ nats_open = 0

====
